---- MODULE Spec2Model ----
(***************************************************************************)
(* NMEA sentence reconciliation of the VertiportNode GPS readers.          *)
(*                                                                         *)
(* Modelled code: src/MA_init.py (GPSData, MA_GPSReader), src/MB_init.py   *)
(* (GPSData, GPSReader) and the sentence builder with_checksum of          *)
(* src/MA_gpsDisplay.py.                                                   *)
(*                                                                         *)
(* Representation.                                                         *)
(*  - A Python str is a sequence of one-character strings.                 *)
(*  - Optional[T] is a sequence of length at most one: None is <<>>,       *)
(*    a present value v is <<v>>.                                          *)
(*  - A float is a binary double: a sign, an odd mantissa and a binary    *)
(*    exponent, or one of inf, -inf and nan (see Float).                   *)
(*  - time.time() is a logical clock that advances by one per sentence.    *)
(***************************************************************************)
EXTENDS Integers, Sequences, FiniteSets, TLC

\* Number of sentences handed to the readers after construction.
MaxTrace == 3
\* Number of iterations of the gps_worker loop.
MaxIter == 2

VARIABLES
  ma,     \* MA_GPSReader.gps_data (src/MA_init.py)
  mb,     \* GPSReader.gps_data (src/MB_init.py)
  clock,  \* the time at the last line received; time.time() next reads clock + 1
  trace,  \* the lines handed to _parse_nmea_sentence since construction
  shown,  \* what the caller last read from a method of gps_data, if anything
  returned,  \* the object read_and_parse last returned, with its content at the return
  shared,      \* the dict shared between gps_worker and the UI loop (src/gps_publisher.py)
  lock,        \* the holder of threading.Lock(), if any
  stop_event,  \* threading.Event(): set or not
  worker,      \* the gps_worker thread: its position, its local d, its iteration count
  ui,          \* the UI loop: its position and its locals
  origin,      \* for each key of shared, the worker iteration that last wrote it
               \* (0: none) and the object it wrote from
  args,        \* the argument of a direct call of a helper function, if one is set up
  result,      \* the helper called and the value it returned, if one was called
  now,         \* what time.time() returns
  uart,        \* the serial port: the byte stream, how much of it has arrived and been read
  sentence_buffer,  \* MA_GPSReader.sentence_buffer / GPSReader.sentence_buffer
  rp,          \* the running read_and_parse call: its position and its locals
  gps          \* the GPSReader of src/gps_parser.py, and the sentences it handed to a parser
readers == <<ma, mb, clock, trace, shown, returned>>
threads == <<shared, lock, stop_event, worker, ui, origin>>
calls == <<args, result>>
serial == <<now, uart, sentence_buffer, rp>>
vars == <<ma, mb, clock, trace, shown, returned, shared, lock, stop_event, worker, ui, origin,
          args, result, now, uart, sentence_buffer, rp, gps>>

None == <<>>
Some(v) == <<v>>
IsNone(o) == o = <<>>
Val(o) == o[1]

----------------------------------------------------------------------------
(* Python str primitives *)

\* The characters of code 1 to 255 in code order, chr(i) being Chars[i]; the
\* double quote (34), the backslash (92) and the backquote (96) are written
\* by name.
Chars == <<"","","","","","","","","\t","\n","","\f","\r","","","","","","","","","","","","","","","","","",""," ","!","dquote","#","$","%","&","'","(",")","*","+",",","-",".","/","0","1","2","3","4","5","6","7","8","9",":",";","<","=",">","?","@","A","B","C","D","E","F","G","H","I","J","K","L","M","N","O","P","Q","R","S","T","U","V","W","X","Y","Z","[","backslash","]","^","_","backquote","a","b","c","d","e","f","g","h","i","j","k","l","m","n","o","p","q","r","s","t","u","v","w","x","y","z","{","|","}","~","","","","","","","","","","","","","","","","","","","","","","","","","","","","","","","","",""," ","¡","¢","£","¤","¥","¦","§","¨","©","ª","«","¬","­","®","¯","°","±","²","³","´","µ","¶","·","¸","¹","º","»","¼","½","¾","¿","À","Á","Â","Ã","Ä","Å","Æ","Ç","È","É","Ê","Ë","Ì","Í","Î","Ï","Ð","Ñ","Ò","Ó","Ô","Õ","Ö","×","Ø","Ù","Ú","Û","Ü","Ý","Þ","ß","à","á","â","ã","ä","å","æ","ç","è","é","ê","ë","ì","í","î","ï","ð","ñ","ò","ó","ô","õ","ö","÷","ø","ù","ú","û","ü","ý","þ","ÿ">>

OrdTable == [c \in {Chars[i] : i \in 1..Len(Chars)} |->
               CHOOSE i \in 1..Len(Chars) : Chars[i] = c]

\* ord(char)
Ord(c) == OrdTable[c]

\* a ^ b on non-negative integers, bit by bit
RECURSIVE BitXor(_, _)
BitXor(a, b) ==
  IF a = 0 THEN b
  ELSE IF b = 0 THEN a
  ELSE (((a % 2) + (b % 2)) % 2) + 2 * BitXor(a \div 2, b \div 2)

\* a ^ b tabulated for 7-bit operands
XorTable == [a \in 0..127 |-> [b \in 0..127 |-> BitXor(a, b)]]

\* a ^ b
Xor(a, b) == IF a \in 0..127 /\ b \in 0..127 THEN XorTable[a][b] ELSE BitXor(a, b)

\* s[i:] for 0 <= i
From(s, i) == IF i >= Len(s) THEN <<>> ELSE SubSeq(s, i + 1, Len(s))
\* s[:j] for 0 <= j
UpTo(s, j) == IF j >= Len(s) THEN s ELSE SubSeq(s, 1, j)
\* s[i:j] for 0 <= i <= j
Slice(s, i, j) == From(UpTo(s, j), i)

\* c in s
Contains(s, c) == \E i \in 1..Len(s) : s[i] = c

\* s[lo..hi].split(sep) (1-based, inclusive) for a one-character separator,
\* by halves: the last piece of the left half continues in the first piece of
\* the right half
RECURSIVE SplitRange(_, _, _, _)
SplitRange(s, sep, lo, hi) ==
  IF lo > hi THEN << <<>> >>
  ELSE IF lo = hi THEN (IF s[lo] = sep THEN << <<>>, <<>> >> ELSE << <<s[lo]>> >>)
  ELSE LET mid == (lo + hi) \div 2
           l == SplitRange(s, sep, lo, mid)
           r == SplitRange(s, sep, mid + 1, hi)
       IN SubSeq(l, 1, Len(l) - 1) \o << l[Len(l)] \o r[1] >> \o Tail(r)
\* s.split(sep)
Split(s, sep) == SplitRange(s, sep, 1, Len(s))

RECURSIVE Pow10(_)
Pow10(n) == IF n = 0 THEN 1 ELSE 10 * Pow10(n - 1)

DecDigits == <<"0","1","2","3","4","5","6","7","8","9">>
HexDigits == <<"0","1","2","3","4","5","6","7","8","9","A","B","C","D","E","F">>
HexLower == <<"0","1","2","3","4","5","6","7","8","9","a","b","c","d","e","f">>

IsDigit(c) == \E i \in 1..10 : DecDigits[i] = c
DigitVal(c) == (CHOOSE i \in 1..10 : DecDigits[i] = c) - 1
IsHex(c) == \E i \in 1..16 : HexDigits[i] = c \/ HexLower[i] = c
HexVal(c) == (CHOOSE i \in 1..16 : HexDigits[i] = c \/ HexLower[i] = c) - 1
\* every character of s is a decimal digit
AllDigits(s) == \A i \in 1..Len(s) : IsDigit(s[i])

\* value of a digit string in the given base (all digits valid)
RECURSIVE DigitsValue(_, _, _)
DigitsValue(s, base, acc) ==
  IF s = <<>> THEN acc
  ELSE DigitsValue(Tail(s), base,
         acc * base + (IF base = 16 THEN HexVal(Head(s)) ELSE DigitVal(Head(s))))

\* The characters str.strip() removes, and the ones int() and float() skip
\* around a number (the codes 28 to 31 are not among these).
Whitespace == {Chars[i] : i \in {9, 10, 11, 12, 13, 28, 29, 30, 31, 32, 133, 160}}
NumberBlanks == {Chars[i] : i \in {9, 10, 11, 12, 13, 32, 133, 160}}
\* the text between the first and the last character that is not a blank
strip_of(s, blanks) ==
  LET kept == {i \in 1..Len(s) : s[i] \notin blanks}
  IN IF kept = {} THEN <<>>
     ELSE SubSeq(s, CHOOSE i \in kept : \A j \in kept : i <= j,
                    CHOOSE i \in kept : \A j \in kept : j <= i)
\* str.strip()
strip(s) == strip_of(s, Whitespace)
\* str.startswith, for a one-character prefix
startswith(s, c) == Len(s) > 0 /\ s[1] = c

IsSign(c) == c = "+" \/ c = "-"
Unsigned(s) == IF s # <<>> /\ IsSign(s[1]) THEN Tail(s) ELSE s
SignOf(s) == IF s # <<>> /\ s[1] = "-" THEN -1 ELSE 1

\* decimal digits in groups separated by single underscores, at least one digit
DecGrouped(v) ==
  /\ v # <<>> /\ v[1] # "_" /\ v[Len(v)] # "_"
  /\ \A i \in 1..Len(v) : IsDigit(v[i]) \/ (v[i] = "_" /\ v[i + 1] # "_")
\* int(b) for a text b without blanks around it
PyIntStripped(b) ==
  IF DecGrouped(Unsigned(b))
  THEN Some(SignOf(b) * DigitsValue(SelectSeq(Unsigned(b), IsDigit), 10, 0))
  ELSE None
\* int(s): blanks around the number, an optional sign and decimal digits that
\* single underscores may group; None stands for ValueError.
PyInt(s) == PyIntStripped(strip_of(s, NumberBlanks))

\* int(s, 16) after the sign: the text without a 0x/0X prefix and without one
\* underscore that may follow the prefix
HexUnprefixed(u) ==
  IF Len(u) >= 2 /\ u[1] = "0" /\ u[2] \in {"x", "X"}
  THEN IF Len(u) >= 3 /\ u[3] = "_" THEN From(u, 3) ELSE From(u, 2)
  ELSE u
\* hex digits in groups separated by single underscores, at least one digit
HexGrouped(v) ==
  /\ v # <<>> /\ v[1] # "_" /\ v[Len(v)] # "_"
  /\ \A i \in 1..Len(v) : IsHex(v[i]) \/ (v[i] = "_" /\ v[i + 1] # "_")
HexOf(sign, v) ==
  IF HexGrouped(v) THEN Some(sign * DigitsValue(SelectSeq(v, IsHex), 16, 0)) ELSE None
PyIntHexStripped(b) == HexOf(SignOf(b), HexUnprefixed(Unsigned(b)))
\* int(s, 16): blanks around the number, an optional sign, an optional 0x
\* prefix and hex digits that single underscores may group; None stands for
\* ValueError.
PyIntHex(s) == PyIntHexStripped(strip_of(s, NumberBlanks))

\* str(n) for n >= 0
RECURSIVE NatStr(_)
NatStr(n) == IF n < 10 THEN <<DecDigits[n + 1]>>
             ELSE Append(NatStr(n \div 10), DecDigits[(n % 10) + 1])
\* str(n)
IntStr(n) == IF n < 0 THEN <<"-">> \o NatStr(-n) ELSE NatStr(n)
\* n as decimal digits, zero-padded on the left to a width
RECURSIVE ZeroPad(_, _)
ZeroPad(n, width) ==
  IF width <= 1 THEN NatStr(n)
  ELSE IF Len(NatStr(n)) >= width THEN NatStr(n)
  ELSE <<"0">> \o ZeroPad(n, width - 1)

\* "%H" / "%M" / "%S" of a value in 0..59
TwoDigits(n) == IF n < 10 THEN <<"0">> \o NatStr(n) ELSE NatStr(n)

\* A natural number of any size is the sequence of its digits in base Limb
\* (its limbs), the least significant first and the last one not 0: <<>> is
\* 0.  The operations divide their work in halves, so that they nest only as
\* deep as the logarithm of the number of limbs.
Limb == 2^15
Highest(S) == CHOOSE i \in S : \A j \in S : j <= i
Lowest(S) == CHOOSE i \in S : \A j \in S : i <= j
LimbAt(a, i) == IF i <= Len(a) THEN a[i] ELSE 0
\* a without its leading zero limbs
BigNorm(a) ==
  IF \A i \in 1..Len(a) : a[i] = 0 THEN <<>>
  ELSE SubSeq(a, 1, Highest({i \in 1..Len(a) : a[i] # 0}))
\* a natural number below Limb^2 as limbs
BigOfNat(n) == BigNorm(<<n % Limb, n \div Limb>>)
\* limbs lo..hi of a * k + carry * Limb^(lo - 1), and the carry out of them
RECURSIVE MulScan(_, _, _, _, _)
MulScan(a, k, lo, hi, carry) ==
  IF lo = hi
  THEN [s |-> <<(a[lo] * k + carry) % Limb>>, c |-> (a[lo] * k + carry) \div Limb]
  ELSE LET low == MulScan(a, k, lo, (lo + hi) \div 2, carry)
           high == MulScan(a, k, (lo + hi) \div 2 + 1, hi, low.c)
       IN [s |-> low.s \o high.s, c |-> high.c]
\* a * k + carry for 0 < k <= Limb and carry < Limb
WithCarry(p) == IF p.c = 0 THEN p.s ELSE Append(p.s, p.c)
BigMulSmall(a, k, carry) ==
  IF a = <<>> THEN BigOfNat(carry) ELSE WithCarry(MulScan(a, k, 1, Len(a), carry))
\* limbs lo..hi of a + b with a carry into them, and the carry out of them
RECURSIVE AddScan(_, _, _, _, _)
AddScan(a, b, lo, hi, carry) ==
  IF lo = hi
  THEN [s |-> <<(LimbAt(a, lo) + LimbAt(b, lo) + carry) % Limb>>,
        c |-> (LimbAt(a, lo) + LimbAt(b, lo) + carry) \div Limb]
  ELSE LET low == AddScan(a, b, lo, (lo + hi) \div 2, carry)
           high == AddScan(a, b, (lo + hi) \div 2 + 1, hi, low.c)
       IN [s |-> low.s \o high.s, c |-> high.c]
BigAdd(a, b) ==
  IF a = <<>> THEN b
  ELSE IF b = <<>> THEN a
  ELSE BigNorm(AddScan(a, b, 1, (IF Len(a) < Len(b) THEN Len(b) ELSE Len(a)) + 1, 0).s)
\* limbs lo..hi of a - b with a borrow from them, and the borrow they take
RECURSIVE SubScan(_, _, _, _, _)
SubScan(a, b, lo, hi, borrow) ==
  IF lo = hi
  THEN [s |-> <<(a[lo] - LimbAt(b, lo) - borrow) % Limb>>,
        c |-> IF a[lo] - LimbAt(b, lo) - borrow < 0 THEN 1 ELSE 0]
  ELSE LET low == SubScan(a, b, lo, (lo + hi) \div 2, borrow)
           high == SubScan(a, b, (lo + hi) \div 2 + 1, hi, low.c)
       IN [s |-> low.s \o high.s, c |-> high.c]
\* a - b for a >= b
BigSub(a, b) == IF b = <<>> THEN a ELSE BigNorm(SubScan(a, b, 1, Len(a), 0).s)
BigLess(a, b) ==
  IF Len(a) # Len(b) THEN Len(a) < Len(b)
  ELSE a # b /\ LET top == Highest({i \in 1..Len(a) : a[i] # b[i]}) IN a[top] < b[top]
\* limbs hi..lo of the quotient of a by k, the highest first, r being what
\* the limbs above them left, and what these limbs leave
RECURSIVE DivScan(_, _, _, _, _)
DivScan(a, k, lo, hi, r) ==
  IF lo = hi
  THEN [q |-> <<(r * Limb + a[lo]) \div k>>, r |-> (r * Limb + a[lo]) % k]
  ELSE LET high == DivScan(a, k, (lo + hi) \div 2 + 1, hi, r)
           low == DivScan(a, k, lo, (lo + hi) \div 2, high.r)
       IN [q |-> high.q \o low.q, r |-> low.r]
Reversed(s) == [i \in 1..Len(s) |-> s[Len(s) + 1 - i]]
\* a divided by k for 0 < k <= Limb: the quotient q and the remainder r
HighestLast(d) == [q |-> BigNorm(Reversed(d.q)), r |-> d.r]
BigDivSmall(a, k) ==
  IF a = <<>> THEN [q |-> <<>>, r |-> 0] ELSE HighestLast(DivScan(a, k, 1, Len(a), 0))
RECURSIVE Bits(_)
Bits(n) == IF n = 0 THEN 0 ELSE 1 + Bits(n \div 2)
\* the number of binary digits of a
BigBits(a) == IF a = <<>> THEN 0 ELSE 15 * (Len(a) - 1) + Bits(a[Len(a)])
BigOdd(a) == a # <<>> /\ a[1] % 2 = 1
\* a * Limb^n and a * 2^k
ShiftLimbs(a, n) == IF a = <<>> THEN a ELSE [i \in 1..n |-> 0] \o a
\* 2^k
BigBit(k) == ShiftLimbs(<<2^(k % 15)>>, k \div 15)
BigShl(a, k) == ShiftLimbs(BigMulSmall(a, 2^(k % 15), 0), k \div 15)
\* a divided by 2^k: the quotient q, and whether a binary digit that is 1
\* was dropped
BigShr(a, k) ==
  [q |-> BigNorm([i \in 1..(Len(a) - k \div 15) |->
                    a[i + k \div 15] \div 2^(k % 15)
                      + (LimbAt(a, i + k \div 15 + 1) % 2^(k % 15)) * 2^(15 - (k % 15))]),
   sticky |-> \/ \E i \in 1..Len(a) : i <= k \div 15 /\ a[i] # 0
              \/ LimbAt(a, k \div 15 + 1) % 2^(k % 15) # 0]
\* a times the limbs lo..hi of b
RECURSIVE MulRange(_, _, _, _)
MulRange(a, b, lo, hi) ==
  IF lo = hi THEN (IF b[lo] = 0 THEN <<>> ELSE BigMulSmall(a, b[lo], 0))
  ELSE BigAdd(MulRange(a, b, lo, (lo + hi) \div 2),
              ShiftLimbs(MulRange(a, b, (lo + hi) \div 2 + 1, hi), (lo + hi) \div 2 + 1 - lo))
BigMul(a, b) == IF a = <<>> \/ b = <<>> THEN <<>> ELSE MulRange(a, b, 1, Len(b))
\* The binary digits hi, ..., lo of a quotient by b, q being the digits
\* above them and r what these left of the dividend: the quotient with
\* these digits and what is left then
\* the binary digit lo of the quotient, s being b * 2^lo
DivStep(q, r, s, lo) ==
  IF BigLess(r, s) THEN [q |-> q, r |-> r]
  ELSE [q |-> BigAdd(q, BigBit(lo)), r |-> BigSub(r, s)]
RECURSIVE BigLongDiv(_, _, _, _, _)
BigLongDiv(b, hi, lo, q, r) ==
  IF hi = lo THEN DivStep(q, r, BigShl(b, lo), lo)
  ELSE LET high == BigLongDiv(b, hi, (hi + lo) \div 2 + 1, q, r)
       IN IF high.r = <<>> THEN high
          ELSE BigLongDiv(b, (hi + lo) \div 2, lo, high.q, high.r)
\* a divided by b # 0: the quotient q, and whether nothing is left
Exactness(d, nothing) == [q |-> d.q, exact |-> d.r = nothing]
BigDiv(a, b) ==
  IF Len(b) = 1 THEN Exactness(BigDivSmall(a, b[1]), 0)
  ELSE IF BigLess(a, b) THEN [q |-> <<>>, exact |-> a = <<>>]
  ELSE Exactness(BigLongDiv(b, BigBits(a) - BigBits(b), 0, <<>>, a), <<>>)
RECURSIVE LowZeros(_)
LowZeros(n) == IF n % 2 = 1 THEN 0 ELSE 1 + LowZeros(n \div 2)
\* the number of binary zeros a # 0 ends with
BigLowZeros(a) ==
  LET low == Lowest({i \in 1..Len(a) : a[i] # 0}) IN 15 * (low - 1) + LowZeros(a[low])
\* 10^k
RECURSIVE BigPow10(_)
BigPow10(k) ==
  IF k <= 8 THEN BigOfNat(Pow10(k))
  ELSE LET half == BigPow10(k \div 2)
       IN BigMulSmall(BigMul(half, half), IF k % 2 = 1 THEN 10 ELSE 1, 0)
\* the number the decimal digits s write
RECURSIVE BigOfDigits(_)
BigOfDigits(s) ==
  IF Len(s) <= 8 THEN BigOfNat(DigitsValue(s, 10, 0))
  ELSE BigAdd(BigMul(BigOfDigits(SubSeq(s, 1, Len(s) \div 2)),
                     BigPow10(Len(s) - Len(s) \div 2)),
              BigOfDigits(SubSeq(s, Len(s) \div 2 + 1, Len(s))))
\* the text without its leading "0" characters, and without its trailing ones
NoLeadingZeros(s) ==
  IF \A i \in 1..Len(s) : s[i] = "0" THEN <<>>
  ELSE SubSeq(s, Lowest({i \in 1..Len(s) : s[i] # "0"}), Len(s))
NoTrailingZeros(s) ==
  IF \A i \in 1..Len(s) : s[i] = "0" THEN <<>>
  ELSE SubSeq(s, 1, Highest({i \in 1..Len(s) : s[i] # "0"}))
\* the last 4 * n decimal digits of a (all of them when it has fewer), and a
\* without them
FourDigits(d) == [q |-> d.q, text |-> ZeroPad(d.r, 4)]
RECURSIVE LastDigits(_, _)
LastDigits(a, n) ==
  IF n = 1 THEN FourDigits(BigDivSmall(a, 10000))
  ELSE LET low == LastDigits(a, n \div 2)
           high == LastDigits(low.q, n - n \div 2)
       IN IF low.q = <<>> THEN low ELSE [q |-> high.q, text |-> high.text \o low.text]
\* the decimal digits of a, none for 0: four of them write 13 binary digits
\* and more
BigDigits(a) == NoLeadingZeros(LastDigits(a, BigBits(a) \div 13 + 1).text)

\* A float is a binary double: a record [kind, neg, m, e].  kind "num" is the
\* number m * 2^e, negative when neg, with m odd and below 2^53 and
\* -1074 <= e, or m = 0 = e (so -0.0 is neg with m = 0); kind "inf" is
\* float("inf"), -inf when neg, and kind "nan" is float("nan").  Every
\* operation gives the double nearest to its exact result, the one with the
\* even mantissa of two equally near, as the arithmetic of the machine does.
Float(kind, neg, m, e) == [kind |-> kind, neg |-> neg, m |-> m, e |-> e]
NaN == Float("nan", FALSE, <<>>, 0)
Infinity(neg) == Float("inf", neg, <<>>, 0)
Inf == Infinity(FALSE)
Zero == Float("num", FALSE, <<>>, 0)
IsNaN(a) == a.kind = "nan"
IsInf(a) == a.kind = "inf"
IsZero(a) == a.kind = "num" /\ a.m = <<>>
\* the double m * 2^e for m of at most 53 binary digits, inf beyond the range
Canonical(neg, m, e, zeros) == Float("num", neg, BigShr(m, zeros).q, e + zeros)
Finite(neg, m, e) ==
  IF m = <<>> THEN Float("num", neg, m, 0)
  ELSE IF BigBits(m) + e > 1024 THEN Infinity(neg)
  ELSE Canonical(neg, m, e, BigLowZeros(m))
\* n without its lowest shift binary digits, rounded to the nearest and to
\* the even one of two: more says that the number lies above n
RoundedUp(r, q, more) ==
  IF BigOdd(r.q) /\ (r.sticky \/ more \/ BigOdd(q)) THEN BigAdd(q, <<1>>) ELSE q
Halved(r, more) == RoundedUp(r, BigShr(r.q, 1).q, more)
RoundedOff(n, shift, more) == Halved(BigShr(n, shift - 1), more)
AtLeast(x, low) == IF x < low THEN low ELSE x
\* the exponent of the last binary digit a double keeps of n * 2^e
LastDigit(n, e) == AtLeast(e + BigBits(n) - 53, -1074)
\* the double nearest to n * 2^e, or to a number between it and (n + 1) * 2^e
\* when more holds (n then has more than 53 binary digits)
RoundAt(neg, n, more, e, last) ==
  Finite(neg, IF last <= e THEN n ELSE RoundedOff(n, last - e, more),
         IF last <= e THEN e ELSE last)
RoundToDouble(neg, n, more, e) ==
  IF n = <<>> THEN Float("num", neg, n, 0) ELSE RoundAt(neg, n, more, e, LastDigit(n, e))
\* the double nearest to (a / b) * 2^e for a # 0 and b # 0, or to a number
\* just above it when more holds: from the quotient of a * 2^k by b, k chosen
\* to give it 58 or 59 binary digits
RoundQuotient(neg, d, more, e) == RoundToDouble(neg, d.q, more \/ ~d.exact, e)
RatioShifted(neg, a, b, more, e, k) ==
  RoundQuotient(neg, BigDiv(BigShl(a, AtLeast(k, 0)), BigShl(b, AtLeast(-k, 0))), more, e - k)
RatioToDouble(neg, a, b, more, e) ==
  RatioShifted(neg, a, b, more, e, 58 + BigBits(b) - BigBits(a))
\* float(i) of an integer of at most 30 binary digits
FloatOfInt(i) == Finite(i < 0, BigOfNat(IF i < 0 THEN -i ELSE i), 0)
\* -a and abs(a)
FloatNeg(a) == IF IsNaN(a) THEN a ELSE [a EXCEPT !.neg = ~@]
FloatAbs(a) == [a EXCEPT !.neg = FALSE]
\* the mantissa of a at the exponent e <= a.e
Aligned(a, e) == BigShl(a.m, a.e - e)
\* the exponent above the first binary digit of a # 0
Top(a) == BigBits(a.m) + a.e
\* |a| < |b| for two numbers that are not zero and begin at one exponent,
\* e being the lower exponent of the two
SmallerAt(a, b, e) == BigLess(Aligned(a, e), Aligned(b, e))
\* |a| < |b| for two numbers
Smaller(a, b) ==
  IF a.m = <<>> \/ b.m = <<>> THEN b.m # <<>>
  ELSE IF Top(a) # Top(b) THEN Top(a) < Top(b)
  ELSE SmallerAt(a, b, IF a.e < b.e THEN a.e ELSE b.e)
\* |x - y|
BigDistance(x, y) == IF BigLess(x, y) THEN BigSub(y, x) ELSE BigSub(x, y)
\* the sum of two numbers of the signs aneg and bneg whose mantissas at the
\* exponent e are x and y
SumAligned(aneg, bneg, x, y, e) ==
  IF aneg # bneg /\ x = y THEN Zero
  ELSE RoundToDouble(IF aneg = bneg \/ BigLess(y, x) THEN aneg ELSE bneg,
                     IF aneg = bneg THEN BigAdd(x, y) ELSE BigDistance(x, y), FALSE, e)
\* the sum of two numbers at their lower exponent e
NumberSum(a, b, e) == SumAligned(a.neg, b.neg, Aligned(a, e), Aligned(b, e), e)
\* a + b
FloatAdd(a, b) ==
  IF IsNaN(a) \/ IsNaN(b) THEN NaN
  ELSE IF IsInf(a) THEN (IF IsInf(b) /\ a.neg # b.neg THEN NaN ELSE a)
  ELSE IF IsInf(b) THEN b
  ELSE IF IsZero(a) /\ ~IsZero(b) THEN b
  ELSE IF IsZero(b) /\ ~IsZero(a) THEN a
  ELSE NumberSum(a, b, IF a.e < b.e THEN a.e ELSE b.e)
\* a - b
FloatSub(a, b) == FloatAdd(a, FloatNeg(b))
\* a * b
FloatMul(a, b) ==
  IF IsNaN(a) \/ IsNaN(b) THEN NaN
  ELSE IF (IsInf(a) /\ IsZero(b)) \/ (IsZero(a) /\ IsInf(b)) THEN NaN
  ELSE IF IsInf(a) \/ IsInf(b) THEN Infinity(a.neg # b.neg)
  ELSE RoundToDouble(a.neg # b.neg, BigMul(a.m, b.m), FALSE, a.e + b.e)
\* a / b for b # 0
FloatDiv(a, b) ==
  IF IsNaN(a) \/ IsNaN(b) \/ (IsInf(a) /\ IsInf(b)) THEN NaN
  ELSE IF IsInf(a) THEN Infinity(a.neg # b.neg)
  ELSE IF IsInf(b) \/ IsZero(a) THEN Float("num", a.neg # b.neg, <<>>, 0)
  ELSE RatioToDouble(a.neg # b.neg, a.m, b.m, FALSE, a.e - b.e)
\* a == b, a != b and a < b
FloatEq(a, b) == ~IsNaN(a) /\ ~IsNaN(b) /\ (a = b \/ (IsZero(a) /\ IsZero(b)))
FloatNe(a, b) == ~FloatEq(a, b)
FloatLt(a, b) ==
  IF IsNaN(a) \/ IsNaN(b) \/ FloatEq(a, b) THEN FALSE
  ELSE IF IsInf(a) THEN a.neg
  ELSE IF IsInf(b) THEN ~b.neg
  ELSE IF a.neg # b.neg THEN a.neg
  ELSE Smaller(IF a.neg THEN b ELSE a, IF a.neg THEN a ELSE b)
\* bool(a)
FloatTrue(a) == ~IsZero(a)

\* str.lower() on ASCII letters
Lower(s) ==
  [i \in 1..Len(s) |-> IF Ord(s[i]) \in 65..90 THEN Chars[Ord(s[i]) + 32] ELSE s[i]]

\* the value of the exponent text x of float(): [sign] digits; None when it
\* is not of this form.  An exponent of more than nine digits is read as
\* +-10^9, which no mantissa brings back into the range of a float.
ExponentOf(x) ==
  IF Unsigned(x) = <<>> \/ ~AllDigits(Unsigned(x)) THEN None
  ELSE IF Len(NoLeadingZeros(Unsigned(x))) > 9 THEN Some(SignOf(x) * Pow10(9))
  ELSE Some(SignOf(x) * DigitsValue(NoLeadingZeros(Unsigned(x)), 10, 0))

\* float() reads at most this many significant digits exactly: no two
\* doubles, and no number halfway between two, differ only behind them
MaxDigits == 8 * 100
\* the double nearest to n * 10^e, or to a number between it and
\* (n + 1) * 10^e when more holds
DecimalDouble(neg, n, e, more) ==
  RatioToDouble(neg, BigMul(n, BigPow10(AtLeast(e, 0))), BigPow10(AtLeast(-e, 0)), more, 0)
\* the float that is sig * 10^e, sig being digits that neither start nor end
\* with "0" and lead the decimal exponent of the first of them: every number
\* from 10^309 on is read as inf and every number below 10^-324 as zero
DecimalFloat(neg, sig, e, lead) ==
  IF sig = <<>> THEN Float("num", neg, <<>>, 0)
  ELSE IF lead > 308 THEN Infinity(neg)
  ELSE IF lead < -324 THEN Float("num", neg, <<>>, 0)
  ELSE DecimalDouble(neg, BigOfDigits(SubSeq(sig, 1, IF Len(sig) > MaxDigits THEN MaxDigits ELSE Len(sig))),
                     e + AtLeast(Len(sig) - MaxDigits, 0), Len(sig) > MaxDigits)

\* the float written by the digits all, the decimal point standing behind
\* the first point of them, times 10^exp
FloatValue(neg, all, point, exp) ==
  DecimalFloat(neg, NoTrailingZeros(NoLeadingZeros(all)),
               exp - (Len(all) - point) + (Len(all) - Len(NoTrailingZeros(all))),
               exp + point - 1 - (Len(all) - Len(NoLeadingZeros(all))))

\* float() of a sign, integer digits ip, fraction digits fp and an exponent
FloatOfParts(neg, ip, fp, exp) ==
  IF AllDigits(ip) /\ AllDigits(fp) /\ Len(ip) + Len(fp) > 0
  THEN Some(FloatValue(neg, ip \o fp, Len(ip), exp))
  ELSE None

\* float() of a sign, the "."-separated pieces p of the mantissa and the
\* exponent (None: not of the form of one)
FloatOfSplit(neg, p, exp) ==
  IF Len(p) > 2 \/ IsNone(exp) THEN None
  ELSE FloatOfParts(neg, p[1], IF Len(p) = 2 THEN p[2] ELSE <<>>, Val(exp))

\* the index of the first "e" or "E" of u, 0 when there is none
ExponentAt(u) ==
  IF \E i \in 1..Len(u) : u[i] \in {"e", "E"}
  THEN CHOOSE i \in 1..Len(u) : u[i] \in {"e", "E"} /\ \A j \in 1..(i - 1) : u[j] \notin {"e", "E"}
  ELSE 0

\* float() of the text u behind the sign: inf, infinity and nan in any case,
\* or digits [. digits] [e [sign] digits] with a digit in the mantissa
FloatOfUnsigned(neg, u) ==
  IF Lower(u) = <<"i","n","f">> \/ Lower(u) = <<"i","n","f","i","n","i","t","y">> THEN Some(Infinity(neg))
  ELSE IF Lower(u) = <<"n","a","n">> THEN Some(NaN)
  ELSE FloatOfSplit(neg, Split(IF ExponentAt(u) = 0 THEN u ELSE UpTo(u, ExponentAt(u) - 1), "."),
                    IF ExponentAt(u) = 0 THEN Some(0) ELSE ExponentOf(From(u, ExponentAt(u))))

\* an underscore of a float text stands between two digits
UnderscoresGroupDigits(t) ==
  \A i \in 1..Len(t) :
    t[i] = "_" => i > 1 /\ i < Len(t) /\ IsDigit(t[i - 1]) /\ IsDigit(t[i + 1])

\* float(t) for a text t without blanks around it
PyFloatStripped(t) ==
  IF UnderscoresGroupDigits(t)
  THEN FloatOfUnsigned(SignOf(t) = -1, Unsigned(SelectSeq(t, LAMBDA c : c # "_")))
  ELSE None

\* float(s): blanks around the number, an optional sign, and inf, infinity,
\* nan or a decimal number with an optional exponent, single underscores
\* grouping its digits; None stands for ValueError.
PyFloat(s) == PyFloatStripped(strip_of(s, NumberBlanks))

\* the float a literal of the source writes
Literal(text) == Val(PyFloat(text))

\* a != b on two floats or None
PyNe(a, b) == IF IsNone(a) \/ IsNone(b) THEN a # b ELSE FloatNe(Val(a), Val(b))


\* f"{cs:02X}" for cs >= 0
RECURSIVE HexStr(_)
HexStr(n) == IF n < 16 THEN <<HexDigits[n + 1]>>
             ELSE Append(HexStr(n \div 16), HexDigits[(n % 16) + 1])
Hex02X(cs) == IF cs < 16 THEN <<"0">> \o HexStr(cs) ELSE HexStr(cs)

\* XOR of ord() over s[lo..hi] (1-based, inclusive)
RECURSIVE XorRange(_, _, _)
XorRange(s, lo, hi) ==
  IF lo > hi THEN 0
  ELSE IF lo = hi THEN Ord(s[lo])
  ELSE LET mid == (lo + hi) \div 2
       IN Xor(XorRange(s, lo, mid), XorRange(s, mid + 1, hi))
\* "for char in s: calculated ^= ord(char)" starting from 0
XorAll(s) == XorRange(s, 1, Len(s))

\* Mutant of with_checksum: the XOR runs over the whole payload, "$" included.
with_checksum_whole(payload) == payload \o <<"*">> \o Hex02X(XorAll(payload))

\* src/MA_gpsDisplay.py with_checksum
with_checksum(payload) == payload \o <<"*">> \o Hex02X(XorAll(From(payload, 1)))

\* Mutant of verify_checksum: with more than one "*" the first piece is the
\* data and the last piece the checksum.
verify_checksum_any_pieces(sentence) ==
  IF ~Contains(sentence, "*") THEN FALSE
  ELSE LET p == Split(From(sentence, 1), "*")
       IN LET cs == PyIntHex(p[Len(p)])
          IN IF IsNone(cs) THEN FALSE ELSE Val(cs) = XorAll(p[1])

\* Mutant of verify_checksum: the hex value is parsed but never compared with
\* the XOR of the payload.
verify_checksum_unchecked(sentence) ==
  IF ~Contains(sentence, "*") THEN FALSE
  ELSE LET p == Split(From(sentence, 1), "*")
       IN IF Len(p) # 2 THEN FALSE ELSE ~IsNone(PyIntHex(p[2]))

\* src/MA_init.py MA_GPSReader._verify_checksum (MB_init.py: same text)
verify_checksum(sentence) ==
  IF ~Contains(sentence, "*") THEN FALSE
  ELSE LET p == Split(From(sentence, 1), "*")
       IN IF Len(p) # 2 THEN FALSE
          ELSE LET cs == PyIntHex(p[2])
               IN IF IsNone(cs) THEN FALSE ELSE Val(cs) = XorAll(p[1])

\* _parse_nmea_sentence, the part that reads the sentence alone: the checksum
\* verdict, the sentence with "*" and what follows it removed, and its
\* comma-separated parts (the text is the same in MA_init.py and MB_init.py)
split_sentence(sentence) ==
  LET body == Split(sentence, "*")[1]
  IN [ok |-> verify_checksum(sentence), sentence |-> body, parts |-> Split(body, ",")]


----------------------------------------------------------------------------
(* Field decoders shared by both readers (same text in MA_init.py and MB_init.py) *)

\* parts[i] with the source's 0-based index
P(parts, i) == parts[i + 1]
\* truthiness of a str
NonEmpty(s) == s # <<>>

\* _parse_coordinate, "if direction in ['S', 'W']: decimal = -decimal"
by_direction(decimal, direction) ==
  IF direction = <<"S">> \/ direction = <<"W">> THEN FloatNeg(decimal) ELSE decimal

\* _parse_coordinate, "decimal = degrees + (minutes / 60.0)" and the sign of
\* the direction; None when a float() raised.
\* Mutant of coordinate_value: the minutes are taken as hundredths of a degree.
coordinate_value_centesimal(degrees, minutes, direction) ==
  IF IsNone(degrees) \/ IsNone(minutes) THEN None
  ELSE Some(by_direction(FloatAdd(Val(degrees), FloatDiv(Val(minutes), FloatOfInt(100))),
                         direction))

coordinate_value(degrees, minutes, direction) ==
  IF IsNone(degrees) \/ IsNone(minutes) THEN None
  ELSE Some(by_direction(FloatAdd(Val(degrees), FloatDiv(Val(minutes), FloatOfInt(60))),
                         direction))

\* _parse_coordinate, the degrees being the first cut characters of coord
coordinate_at(coord, cut, direction) ==
  coordinate_value(PyFloat(UpTo(coord, cut)), PyFloat(From(coord, cut)), direction)

\* _parse_coordinate: two degree digits when four characters precede the ".",
\* three otherwise
\* Mutant of parse_coordinate: the direction letter, not the digit count,
\* selects the two-digit form.
parse_coordinate_by_direction(coord, direction) ==
  coordinate_at(coord, IF direction \in {<<"N">>, <<"S">>} THEN 2 ELSE 3, direction)

parse_coordinate(coord, direction) ==
  coordinate_at(coord, IF Len(Split(coord, ".")[1]) = 4 THEN 2 ELSE 3, direction)

\* _parse_time: "HH:MM:SS" from the first six characters, None when shorter
parse_time(time_str) ==
  IF Len(time_str) >= 6
  THEN Some(Slice(time_str, 0, 2) \o <<":">> \o Slice(time_str, 2, 4) \o <<":">> \o Slice(time_str, 4, 6))
  ELSE None

\* _parse_date, f"{day}/{month}/{year}" with year = int(...) + 2000
date_text(date_str, year) ==
  IF IsNone(year) THEN None
  ELSE Some(Slice(date_str, 0, 2) \o <<"/">> \o Slice(date_str, 2, 4) \o <<"/">>
            \o IntStr(Val(year) + 2000))

\* _parse_date: "DD/MM/YYYY" from exactly six characters, None otherwise
parse_date(date_str) ==
  IF Len(date_str) = 6 THEN date_text(date_str, PyInt(Slice(date_str, 4, 6))) ELSE None

\* speed_knots * 1.852
KmhOf(knots) == FloatMul(knots, Literal(<<"1",".","8","5","2">>))

\* fix_types.get(code, 'Unknown')
fix_types(code) ==
  IF code = <<"1">> THEN <<"N","o"," ","F","i","x">>
  ELSE IF code = <<"2">> THEN <<"2","D">>
  ELSE IF code = <<"3">> THEN <<"3","D">>
  ELSE <<"U","n","k","n","o","w","n">>

\* the outcome of int(x) inside a try: [ok |-> FALSE] stands for ValueError
IntResult(n) == IF IsNone(n) THEN [ok |-> FALSE, v |-> None] ELSE [ok |-> TRUE, v |-> n]

\* int(x) if x else None, inside a try
IntOrNone(x) == IF ~NonEmpty(x) THEN [ok |-> TRUE, v |-> None] ELSE IntResult(PyInt(x))

\* "try: self.gps_data.<field> = v  except ValueError: pass", v being None when
\* the conversion raised
try_assign(d, field, v) == IF IsNone(v) THEN d ELSE [d EXCEPT ![field] = v]

\* "if x: try: self.gps_data.<field> = float(x) except ValueError: pass"
float_field(d, field, x) == IF NonEmpty(x) THEN try_assign(d, field, PyFloat(x)) ELSE d

\* "if x: try: self.gps_data.<field> = int(x) except ValueError: pass"
int_field(d, field, x) == IF NonEmpty(x) THEN try_assign(d, field, PyInt(x)) ELSE d

\* "if c: self.gps_data.<field> = v"
assign_if(c, d, field, v) == IF c THEN [d EXCEPT ![field] = v] ELSE d

----------------------------------------------------------------------------
(* src/MA_init.py *)

\* GPSData() as constructed at time t
MA_GPSData(t) ==
  [ latitude |-> None, longitude |-> None, altitude |-> None,
    utc_time |-> None, local_time |-> None, date |-> None, timestamp |-> None,
    fix_quality |-> None, fix_type |-> None,
    satellites_used |-> None, satellites_in_view |-> None,
    satellite_info |-> <<>>,
    hdop |-> None, vdop |-> None, pdop |-> None,
    speed_knots |-> None, speed_kmh |-> None, course |-> None,
    mode |-> None, status |-> None,
    last_rmc |-> None, last_gga |-> None, last_gsa |-> None,
    last_gsv |-> None, last_gll |-> None,
    last_update |-> Some(t), last_position_change |-> None,
    previous_latitude |-> None, previous_longitude |-> None ]

\* Mutant of MA_is_valid: the zero test is made on the latitude only.
MA_is_valid_lat_only(d) ==
  /\ d.status = Some(<<"A">>)
  /\ ~IsNone(d.latitude)
  /\ ~IsNone(d.longitude)
  /\ FloatNe(Val(d.latitude), Zero)

\* GPSData.is_valid
MA_is_valid(d) ==
  /\ d.status = Some(<<"A">>)
  /\ ~IsNone(d.latitude)
  /\ ~IsNone(d.longitude)
  /\ FloatNe(Val(d.latitude), Zero)
  /\ FloatNe(Val(d.longitude), Zero)

\* abs() of a difference
Abs(x) == IF x < 0 THEN -x ELSE x

\* The default of has_position_changed's threshold parameter, 0.00001 degree
threshold_default == Literal(<<"0",".","0","0","0","0","1">>)

\* "abs(a - b) > threshold"
axis_changed(a, b, threshold) == FloatLt(threshold, FloatAbs(FloatSub(a, b)))

\* Mutant of MA_has_position_changed: the threshold is not used, any
\* difference counts.
MA_has_position_changed_any(d, threshold) ==
  IF \/ IsNone(d.previous_latitude) \/ IsNone(d.previous_longitude)
     \/ IsNone(d.latitude) \/ IsNone(d.longitude)
  THEN TRUE
  ELSE \/ FloatNe(Val(d.latitude), Val(d.previous_latitude))
       \/ FloatNe(Val(d.longitude), Val(d.previous_longitude))

\* GPSData.has_position_changed
MA_has_position_changed(d, threshold) ==
  IF \/ IsNone(d.previous_latitude) \/ IsNone(d.previous_longitude)
     \/ IsNone(d.latitude) \/ IsNone(d.longitude)
  THEN TRUE
  ELSE \/ axis_changed(Val(d.latitude), Val(d.previous_latitude), threshold)
       \/ axis_changed(Val(d.longitude), Val(d.previous_longitude), threshold)

\* The offset of the host's local time from UTC, in seconds: localtime() of
\* "mktime(utc_time) - time.timezone" is the UTC time in the zone of the host,
\* here a host that keeps UTC.
host_utc_offset == 0
\* strftime("%H:%M:%S") of a time of day in seconds
clock_text(seconds) ==
  TwoDigits(seconds \div 3600) \o <<":">> \o TwoDigits((seconds % 3600) \div 60)
    \o <<":">> \o TwoDigits(seconds % 60)
\* _convert_to_central_time, after the six int() conversions (None: a
\* conversion raised): mktime() carries seconds, minutes and hours out of
\* their ranges over into the next unit, and the day, the month and the year
\* move the date only
central_time_of(hours, minutes, seconds, day, month, year) ==
  IF \E x \in {hours, minutes, seconds, day, month, year} : IsNone(x) THEN None
  ELSE Some(clock_text((3600 * Val(hours) + 60 * Val(minutes) + Val(seconds)
                          + host_utc_offset) % 86400))

\* _convert_to_central_time
MA_convert_to_central_time(time_str, date_str) ==
  IF Len(time_str) >= 6 /\ Len(date_str) = 6
  THEN central_time_of(PyInt(Slice(time_str, 0, 2)), PyInt(Slice(time_str, 2, 4)),
                       PyInt(Slice(time_str, 4, 6)), PyInt(Slice(date_str, 0, 2)),
                       PyInt(Slice(date_str, 2, 4)), PyInt(Slice(date_str, 4, 6)))
  ELSE None

\* parse_rmc, "# Time"
MA_rmc_time(d, parts) ==
  IF NonEmpty(P(parts, 1))
  THEN [d EXCEPT !.utc_time = parse_time(P(parts, 1)),
                 !.local_time = MA_convert_to_central_time(P(parts, 1), P(parts, 9))]
  ELSE d

\* Mutant of MA_rmc_status: an empty status field leaves the stored status.
MA_rmc_status_keep(d, parts) ==
  IF NonEmpty(P(parts, 2)) THEN [d EXCEPT !.status = Some(P(parts, 2))] ELSE d

\* parse_rmc, "# Status"
MA_rmc_status(d, parts) ==
  [d EXCEPT !.status = IF NonEmpty(P(parts, 2)) THEN Some(P(parts, 2)) ELSE None]

\* Mutant of MA_update_position: the stored position moves to previous_* on
\* every update, also when the new position equals it.
MA_update_position_always_shifts(d, new_lat, new_lon, t) ==
  IF ~IsNone(new_lat) /\ ~IsNone(new_lon)
  THEN [d EXCEPT !.previous_latitude = d.latitude, !.previous_longitude = d.longitude,
                 !.last_position_change = Some(t),
                 !.latitude = new_lat, !.longitude = new_lon]
  ELSE d

\* Mutant of MA_update_position: a coordinate that decoded is stored also when
\* the other one did not decode.
MA_update_position_each(d, new_lat, new_lon, t) ==
  IF ~IsNone(new_lat) /\ ~IsNone(new_lon)
  THEN IF d.latitude # new_lat \/ d.longitude # new_lon
       THEN [d EXCEPT !.previous_latitude = d.latitude, !.previous_longitude = d.longitude,
                      !.last_position_change = Some(t),
                      !.latitude = new_lat, !.longitude = new_lon]
       ELSE d
  ELSE [d EXCEPT !.latitude = IF IsNone(new_lat) THEN @ ELSE new_lat,
                 !.longitude = IF IsNone(new_lon) THEN @ ELSE new_lon]

\* parse_rmc / parse_gga, "# Position", once both coordinates are converted:
\* both decoded; a position that differs from the stored one first moves the
\* stored one to previous_*
MA_update_position(d, new_lat, new_lon, t) ==
  IF ~IsNone(new_lat) /\ ~IsNone(new_lon)
  THEN IF PyNe(d.latitude, new_lat) \/ PyNe(d.longitude, new_lon)
       THEN [d EXCEPT !.previous_latitude = d.latitude,
                      !.previous_longitude = d.longitude,
                      !.last_position_change = Some(t),
                      !.latitude = new_lat,
                      !.longitude = new_lon]
       ELSE [d EXCEPT !.latitude = new_lat, !.longitude = new_lon]
  ELSE d

\* Mutant of MA_rmc_position: the position is taken from an Active RMC only.
MA_rmc_position_active_only(d, parts, t) ==
  IF /\ NonEmpty(P(parts, 3)) /\ NonEmpty(P(parts, 4))
     /\ NonEmpty(P(parts, 5)) /\ NonEmpty(P(parts, 6))
     /\ d.status = Some(<<"A">>)
  THEN MA_update_position(d, parse_coordinate(P(parts, 3), P(parts, 4)),
                             parse_coordinate(P(parts, 5), P(parts, 6)), t)
  ELSE d

\* Mutant of MA_rmc_position: an RMC without a position clears the stored one.
MA_rmc_position_resets(d, parts, t) ==
  IF /\ NonEmpty(P(parts, 3)) /\ NonEmpty(P(parts, 4))
     /\ NonEmpty(P(parts, 5)) /\ NonEmpty(P(parts, 6))
  THEN MA_update_position(d, parse_coordinate(P(parts, 3), P(parts, 4)),
                             parse_coordinate(P(parts, 5), P(parts, 6)), t)
  ELSE [d EXCEPT !.latitude = None, !.longitude = None]

\* parse_rmc, "# Position"
MA_rmc_position(d, parts, t) ==
  IF /\ NonEmpty(P(parts, 3)) /\ NonEmpty(P(parts, 4))
     /\ NonEmpty(P(parts, 5)) /\ NonEmpty(P(parts, 6))
  THEN MA_update_position(d, parse_coordinate(P(parts, 3), P(parts, 4)),
                             parse_coordinate(P(parts, 5), P(parts, 6)), t)
  ELSE d

\* parse_rmc, "# Speed", after float(parts[7]) (None: it raised)
rmc_speed(d, knots) ==
  IF IsNone(knots) THEN d
  ELSE [d EXCEPT !.speed_knots = knots, !.speed_kmh = Some(KmhOf(Val(knots)))]

\* parse_rmc, "# Speed", "# Course", "# Date", "# Mode"
MA_rmc_motion(d, parts) ==
  LET d1 == IF NonEmpty(P(parts, 7)) THEN rmc_speed(d, PyFloat(P(parts, 7))) ELSE d
      d2 == float_field(d1, "course", P(parts, 8))
      d3 == assign_if(NonEmpty(P(parts, 9)), d2, "date", parse_date(P(parts, 9)))
  IN assign_if(Len(parts) > 12 /\ NonEmpty(P(parts, 12)), d3, "mode", Some(P(parts, 12)))

\* Mutant of MA_parse_rmc: eleven fields are enough.
MA_parse_rmc_eleven(d, parts, t) ==
  IF Len(parts) < 11 THEN d
  ELSE LET d1 == MA_rmc_time(d, parts)
           d2 == MA_rmc_status(d1, parts)
           d3 == MA_rmc_position(d2, parts, t)
           d4 == MA_rmc_motion(d3, parts)
       IN [d4 EXCEPT !.last_update = Some(t)]

\* parse_rmc
MA_parse_rmc(d, parts, t) ==
  IF Len(parts) < 12 THEN d
  ELSE LET d1 == MA_rmc_time(d, parts)
           d2 == MA_rmc_status(d1, parts)
           d3 == MA_rmc_position(d2, parts, t)
           d4 == MA_rmc_motion(d3, parts)
       IN [d4 EXCEPT !.last_update = Some(t)]

\* Mutant of MA_gga_position: GGA is a fallback that writes only while no
\* position is stored.
MA_gga_position_fallback(d, parts, t) ==
  IF /\ NonEmpty(P(parts, 2)) /\ NonEmpty(P(parts, 3))
     /\ NonEmpty(P(parts, 4)) /\ NonEmpty(P(parts, 5))
     /\ (IsNone(d.latitude) \/ IsNone(d.longitude))
  THEN MA_update_position(d, parse_coordinate(P(parts, 2), P(parts, 3)),
                             parse_coordinate(P(parts, 4), P(parts, 5)), t)
  ELSE d

\* Mutant of MA_gga_position: a position with a zero coordinate is not taken
\* (the rule of MB_init.py).
MA_gga_position_nonzero(d, parts, t) ==
  IF /\ NonEmpty(P(parts, 2)) /\ NonEmpty(P(parts, 3))
     /\ NonEmpty(P(parts, 4)) /\ NonEmpty(P(parts, 5))
     /\ parse_coordinate(P(parts, 2), P(parts, 3)) # Some(Zero)
     /\ parse_coordinate(P(parts, 4), P(parts, 5)) # Some(Zero)
  THEN MA_update_position(d, parse_coordinate(P(parts, 2), P(parts, 3)),
                             parse_coordinate(P(parts, 4), P(parts, 5)), t)
  ELSE d

\* parse_gga, "# Position": the same text as in parse_rmc
MA_gga_position(d, parts, t) ==
  IF /\ NonEmpty(P(parts, 2)) /\ NonEmpty(P(parts, 3))
     /\ NonEmpty(P(parts, 4)) /\ NonEmpty(P(parts, 5))
  THEN MA_update_position(d, parse_coordinate(P(parts, 2), P(parts, 3)),
                             parse_coordinate(P(parts, 4), P(parts, 5)), t)
  ELSE d

\* Mutant of MA_gga_quality: a fix quality of 0 also marks the status Void.
MA_gga_quality_voids(d, parts) ==
  LET d0 == IF P(parts, 6) = <<"0">> THEN [d EXCEPT !.status = Some(<<"V">>)] ELSE d
      d1 == int_field(d0, "fix_quality", P(parts, 6))
      d2 == int_field(d1, "satellites_used", P(parts, 7))
      d3 == float_field(d2, "hdop", P(parts, 8))
  IN float_field(d3, "altitude", P(parts, 9))

\* parse_gga, "# Fix quality" to "# Altitude"
MA_gga_quality(d, parts) ==
  LET d1 == int_field(d, "fix_quality", P(parts, 6))
      d2 == int_field(d1, "satellites_used", P(parts, 7))
      d3 == float_field(d2, "hdop", P(parts, 8))
  IN float_field(d3, "altitude", P(parts, 9))

\* parse_gga
MA_parse_gga(d, parts, t) ==
  IF Len(parts) < 14 THEN d
  ELSE LET d1 == assign_if(NonEmpty(P(parts, 1)), d, "utc_time", parse_time(P(parts, 1)))
           d2 == MA_gga_position(d1, parts, t)
           d3 == MA_gga_quality(d2, parts)
       IN [d3 EXCEPT !.last_update = Some(t)]

\* parse_gsa (MB_init.py parse_gsa has the same text)
\* Mutant of parse_gsa: a 2D or 3D fix also marks the status Active.
parse_gsa_marks_active(d, parts, t) ==
  IF Len(parts) < 18 THEN d
  ELSE LET d0 == IF P(parts, 2) \in {<<"2">>, <<"3">>}
                 THEN [d EXCEPT !.status = Some(<<"A">>)] ELSE d
           d1 == assign_if(NonEmpty(P(parts, 2)), d0, "fix_type", Some(fix_types(P(parts, 2))))
           d2 == float_field(d1, "pdop", P(parts, 15))
           d3 == float_field(d2, "hdop", P(parts, 16))
           d4 == float_field(d3, "vdop", P(parts, 17))
       IN [d4 EXCEPT !.last_update = Some(t)]

parse_gsa(d, parts, t) ==
  IF Len(parts) < 18 THEN d
  ELSE LET d1 == assign_if(NonEmpty(P(parts, 2)), d, "fix_type", Some(fix_types(P(parts, 2))))
           d2 == float_field(d1, "pdop", P(parts, 15))
           d3 == float_field(d2, "hdop", P(parts, 16))
           d4 == float_field(d3, "vdop", P(parts, 17))
       IN [d4 EXCEPT !.last_update = Some(t)]

\* parse_gsv, the "for i in range(4)" loop from iteration i on; a ValueError
\* leaves the loop with the records appended so far.
RECURSIVE MA_gsv_loop(_, _, _)
RECURSIVE MA_gsv_append(_, _, _, _, _, _, _)
MA_gsv_loop(info, parts, i) ==
  IF i >= 4 THEN info
  ELSE IF 4 + (i * 4) + 3 < Len(parts) /\ NonEmpty(P(parts, 4 + (i * 4)))
  THEN MA_gsv_append(info, parts, i,
                     IntOrNone(P(parts, 4 + (i * 4))), IntOrNone(P(parts, 4 + (i * 4) + 1)),
                     IntOrNone(P(parts, 4 + (i * 4) + 2)), IntOrNone(P(parts, 4 + (i * 4) + 3)))
  ELSE MA_gsv_loop(info, parts, i + 1)

\* parse_gsv, the sat_info dict of iteration i and the append, after the four
\* int() conversions
MA_gsv_append(info, parts, i, prn, el, az, snr) ==
  IF prn.ok /\ el.ok /\ az.ok /\ snr.ok
  THEN MA_gsv_loop(Append(info, [prn |-> prn.v, elevation |-> el.v,
                                  azimuth |-> az.v, snr |-> snr.v]),
                   parts, i + 1)
  ELSE info

\* Mutant of MA_gsv_body: the first message of a group does not clear the records.
MA_gsv_body_never_clears(d, parts, total_msgs, msg_num, sats_in_view) ==
  IF IsNone(total_msgs) \/ IsNone(msg_num) \/ IsNone(sats_in_view) THEN d
  ELSE [d EXCEPT !.satellites_in_view = sats_in_view,
                 !.satellite_info = MA_gsv_loop(d.satellite_info, parts, 0)]

\* parse_gsv, the try block after the three int() conversions of the header
MA_gsv_body(d, parts, total_msgs, msg_num, sats_in_view) ==
  IF IsNone(total_msgs) \/ IsNone(msg_num) \/ IsNone(sats_in_view) THEN d
  ELSE [d EXCEPT !.satellites_in_view = sats_in_view,
                 !.satellite_info =
                    MA_gsv_loop(IF Val(msg_num) = 1 THEN <<>> ELSE d.satellite_info, parts, 0)]

\* parse_gsv
MA_parse_gsv(d, parts, t) ==
  IF Len(parts) < 4 THEN d
  ELSE [MA_gsv_body(d, parts, PyInt(P(parts, 1)), PyInt(P(parts, 2)), PyInt(P(parts, 3)))
          EXCEPT !.last_update = Some(t)]

\* Mutant of MA_gll_status: the GLL status is taken only while none is set
\* (the rule of MB_init.py).
MA_gll_status_if_absent(d, parts) ==
  IF NonEmpty(P(parts, 6)) /\ IsNone(d.status) THEN [d EXCEPT !.status = Some(P(parts, 6))] ELSE d

\* parse_gll, "# Status"
MA_gll_status(d, parts) ==
  IF NonEmpty(P(parts, 6)) THEN [d EXCEPT !.status = Some(P(parts, 6))] ELSE d

\* parse_gll, "# Position", once both coordinates are converted: written only
\* while latitude or longitude is None
MA_gll_fill_position(d, new_lat, new_lon, t) ==
  IF /\ ~IsNone(new_lat) /\ ~IsNone(new_lon)
     /\ (IsNone(d.latitude) \/ IsNone(d.longitude))
  THEN [d EXCEPT !.previous_latitude = d.latitude,
                 !.previous_longitude = d.longitude,
                 !.latitude = new_lat,
                 !.longitude = new_lon,
                 !.last_position_change = Some(t)]
  ELSE d

\* Mutant of MA_gll_position: the GLL position is written whenever it decodes.
MA_gll_position_always(d, parts, t) ==
  IF /\ NonEmpty(P(parts, 1)) /\ NonEmpty(P(parts, 2))
     /\ NonEmpty(P(parts, 3)) /\ NonEmpty(P(parts, 4))
  THEN LET new_lat == parse_coordinate(P(parts, 1), P(parts, 2))
           new_lon == parse_coordinate(P(parts, 3), P(parts, 4))
       IN IF ~IsNone(new_lat) /\ ~IsNone(new_lon)
          THEN [d EXCEPT !.previous_latitude = d.latitude,
                         !.previous_longitude = d.longitude,
                         !.latitude = new_lat,
                         !.longitude = new_lon,
                         !.last_position_change = Some(t)]
          ELSE d
  ELSE d

\* Mutant of MA_gll_position: a stored zero latitude counts as no position
\* (the rule of MB_init.py).
MA_gll_position_zero_keyed(d, parts, t) ==
  IF /\ NonEmpty(P(parts, 1)) /\ NonEmpty(P(parts, 2))
     /\ NonEmpty(P(parts, 3)) /\ NonEmpty(P(parts, 4))
  THEN LET new_lat == parse_coordinate(P(parts, 1), P(parts, 2))
           new_lon == parse_coordinate(P(parts, 3), P(parts, 4))
       IN IF /\ ~IsNone(new_lat) /\ ~IsNone(new_lon)
             /\ (IsNone(d.latitude) \/ IsNone(d.longitude) \/ d.latitude = Some(Zero))
          THEN [d EXCEPT !.previous_latitude = d.latitude,
                         !.previous_longitude = d.longitude,
                         !.latitude = new_lat,
                         !.longitude = new_lon,
                         !.last_position_change = Some(t)]
          ELSE d
  ELSE d

\* parse_gll, "# Position" (inside "if self.gps_data.status == 'A'")
MA_gll_position(d, parts, t) ==
  IF /\ NonEmpty(P(parts, 1)) /\ NonEmpty(P(parts, 2))
     /\ NonEmpty(P(parts, 3)) /\ NonEmpty(P(parts, 4))
  THEN MA_gll_fill_position(d, parse_coordinate(P(parts, 1), P(parts, 2)),
                               parse_coordinate(P(parts, 3), P(parts, 4)), t)
  ELSE d

\* parse_gll, "# Time" (inside "if self.gps_data.status == 'A'")
MA_gll_time(d, parts) ==
  IF NonEmpty(P(parts, 5)) /\ (IsNone(d.utc_time) \/ ~NonEmpty(Val(d.utc_time)))
  THEN [d EXCEPT !.utc_time = parse_time(P(parts, 5))]
  ELSE d

\* parse_gll, the block under "if self.gps_data.status == 'A'"
MA_gll_if_active(d, parts, t) ==
  IF d.status = Some(<<"A">>) THEN MA_gll_time(MA_gll_position(d, parts, t), parts) ELSE d

\* Mutant of MA_parse_gll: the position and time blocks are gated on the status
\* held before this sentence, the sentence's own status being stored after them.
MA_parse_gll_status_last(d, parts, t) ==
  IF Len(parts) < 7 THEN d
  ELSE LET d1 == MA_gll_if_active(d, parts, t)
           d2 == MA_gll_status(d1, parts)
           d3 == assign_if(Len(parts) > 7 /\ NonEmpty(P(parts, 7)), d2, "mode", Some(P(parts, 7)))
       IN [d3 EXCEPT !.last_update = Some(t)]

\* parse_gll
MA_parse_gll(d, parts, t) ==
  IF Len(parts) < 7 THEN d
  ELSE LET d1 == MA_gll_status(d, parts)
           d2 == MA_gll_if_active(d1, parts, t)
           d3 == assign_if(Len(parts) > 7 /\ NonEmpty(P(parts, 7)), d2, "mode", Some(P(parts, 7)))
       IN [d3 EXCEPT !.last_update = Some(t)]

\* _parse_nmea_sentence, the dispatch on parts[0]
\* Mutant of MA_dispatch: a sentence of any other type still stamps last_update.
MA_dispatch_stamps(d, x, t) ==
  LET sentence_type == P(x.parts, 0)
  IN IF sentence_type \in {<<"$","G","P","R","M","C">>, <<"$","G","N","R","M","C">>}
     THEN [MA_parse_rmc(d, x.parts, t) EXCEPT !.last_rmc = Some(x.sentence)]
     ELSE IF sentence_type \in {<<"$","G","P","G","G","A">>, <<"$","G","N","G","G","A">>}
     THEN [MA_parse_gga(d, x.parts, t) EXCEPT !.last_gga = Some(x.sentence)]
     ELSE IF sentence_type \in {<<"$","G","P","G","S","A">>, <<"$","G","N","G","S","A">>}
     THEN [parse_gsa(d, x.parts, t) EXCEPT !.last_gsa = Some(x.sentence)]
     ELSE IF sentence_type \in {<<"$","G","P","G","S","V">>, <<"$","G","L","G","S","V">>, <<"$","G","N","G","S","V">>}
     THEN [MA_parse_gsv(d, x.parts, t) EXCEPT !.last_gsv = Some(x.sentence)]
     ELSE IF sentence_type \in {<<"$","G","P","G","L","L">>, <<"$","G","N","G","L","L">>}
     THEN [MA_parse_gll(d, x.parts, t) EXCEPT !.last_gll = Some(x.sentence)]
     ELSE [d EXCEPT !.last_update = Some(t)]

MA_dispatch(d, x, t) ==
  LET sentence_type == P(x.parts, 0)
  IN IF sentence_type \in {<<"$","G","P","R","M","C">>, <<"$","G","N","R","M","C">>}
     THEN [MA_parse_rmc(d, x.parts, t) EXCEPT !.last_rmc = Some(x.sentence)]
     ELSE IF sentence_type \in {<<"$","G","P","G","G","A">>, <<"$","G","N","G","G","A">>}
     THEN [MA_parse_gga(d, x.parts, t) EXCEPT !.last_gga = Some(x.sentence)]
     ELSE IF sentence_type \in {<<"$","G","P","G","S","A">>, <<"$","G","N","G","S","A">>}
     THEN [parse_gsa(d, x.parts, t) EXCEPT !.last_gsa = Some(x.sentence)]
     ELSE IF sentence_type \in {<<"$","G","P","G","S","V">>, <<"$","G","L","G","S","V">>, <<"$","G","N","G","S","V">>}
     THEN [MA_parse_gsv(d, x.parts, t) EXCEPT !.last_gsv = Some(x.sentence)]
     ELSE IF sentence_type \in {<<"$","G","P","G","L","L">>, <<"$","G","N","G","L","L">>}
     THEN [MA_parse_gll(d, x.parts, t) EXCEPT !.last_gll = Some(x.sentence)]
     ELSE d

\* _parse_nmea_sentence on a split sentence x = split_sentence(sentence)
MA_handle(d, x, t) == IF ~x.ok THEN d ELSE MA_dispatch(d, x, t)

\* _parse_nmea_sentence
MA_parse_nmea_sentence(d, sentence, t) == MA_handle(d, split_sentence(sentence), t)

----------------------------------------------------------------------------
(* src/MB_init.py *)

\* GPSReader.utc_offset_hours (CST = UTC-6)
utc_offset_hours == -6

\* GPSData() as constructed at time t
MB_GPSData(t) ==
  [ latitude |-> None, longitude |-> None, altitude |-> None,
    utc_time |-> None, local_time |-> None, date |-> None, timestamp |-> None,
    fix_quality |-> None, fix_type |-> None,
    satellites_used |-> None, satellites_in_view |-> None,
    satellite_info |-> <<>>,
    hdop |-> None, vdop |-> None, pdop |-> None,
    speed_knots |-> None, speed_kmh |-> None, course |-> None,
    mode |-> None, status |-> None,
    last_rmc |-> None, last_gga |-> None, last_gsa |-> None,
    last_gsv |-> None, last_gll |-> None,
    last_update |-> Some(t), last_valid_lat |-> None, last_valid_lon |-> None ]

\* GPSData.is_valid
MB_is_valid(d) ==
  /\ d.status = Some(<<"A">>)
  /\ ~IsNone(d.latitude)
  /\ ~IsNone(d.longitude)
  /\ FloatNe(Val(d.latitude), Zero)
  /\ FloatNe(Val(d.longitude), Zero)

\* _convert_to_local_time, after the three int() conversions: the UTC time of
\* day shifted by utc_offset_hours; None when int() or datetime.replace() raised.
local_time_of(hours, minutes, seconds) ==
  IF IsNone(hours) \/ IsNone(minutes) \/ IsNone(seconds) THEN None
  ELSE IF Val(hours) \notin 0..23 \/ Val(minutes) \notin 0..59 \/ Val(seconds) \notin 0..59
  THEN None
  ELSE Some(TwoDigits((Val(hours) + utc_offset_hours) % 24) \o <<":">>
            \o TwoDigits(Val(minutes)) \o <<":">> \o TwoDigits(Val(seconds)))

\* _convert_to_local_time
MB_convert_to_local_time(time_str) ==
  IF Len(time_str) >= 6
  THEN local_time_of(PyInt(Slice(time_str, 0, 2)), PyInt(Slice(time_str, 2, 4)),
                     PyInt(Slice(time_str, 4, 6)))
  ELSE None

\* parse_rmc / parse_gga position block: zero coordinates are not stored
MB_store_position(d, lat, lon) ==
  IF /\ ~IsNone(lat) /\ ~IsNone(lon)
     /\ FloatNe(Val(lat), Zero) /\ FloatNe(Val(lon), Zero)
  THEN [d EXCEPT !.latitude = lat, !.longitude = lon]
  ELSE d

\* parse_rmc, "# Position"
MB_rmc_position(d, parts) ==
  IF /\ NonEmpty(P(parts, 3)) /\ NonEmpty(P(parts, 4))
     /\ NonEmpty(P(parts, 5)) /\ NonEmpty(P(parts, 6))
  THEN MB_store_position(d, parse_coordinate(P(parts, 3), P(parts, 4)),
                            parse_coordinate(P(parts, 5), P(parts, 6)))
  ELSE d

\* parse_rmc / parse_gga, "# Time"
MB_time(d, parts) ==
  IF NonEmpty(P(parts, 1))
  THEN [d EXCEPT !.utc_time = parse_time(P(parts, 1)),
                 !.local_time = MB_convert_to_local_time(P(parts, 1))]
  ELSE d

\* parse_rmc
MB_parse_rmc(d, parts, t) ==
  IF Len(parts) < 12 THEN d
  ELSE LET d1 == MB_time(d, parts)
           d2 == MA_rmc_status(d1, parts)
           d3 == MB_rmc_position(d2, parts)
           d4 == MA_rmc_motion(d3, parts)
       IN [d4 EXCEPT !.last_update = Some(t)]

\* parse_gga, "# Position"
MB_gga_position(d, parts) ==
  IF /\ NonEmpty(P(parts, 2)) /\ NonEmpty(P(parts, 3))
     /\ NonEmpty(P(parts, 4)) /\ NonEmpty(P(parts, 5))
  THEN MB_store_position(d, parse_coordinate(P(parts, 2), P(parts, 3)),
                            parse_coordinate(P(parts, 4), P(parts, 5)))
  ELSE d

\* parse_gga
MB_parse_gga(d, parts, t) ==
  IF Len(parts) < 14 THEN d
  ELSE LET d1 == MB_time(d, parts)
           d2 == MB_gga_position(d1, parts)
           d3 == MA_gga_quality(d2, parts)
       IN [d3 EXCEPT !.last_update = Some(t)]

\* min(a, b)
Min(a, b) == IF a < b THEN a ELSE b

\* "int(parts[k]) if k < len(parts) and parts[k] else None", inside a try
MB_IntOrNone(parts, k) ==
  IF k < Len(parts) THEN IntOrNone(P(parts, k)) ELSE [ok |-> TRUE, v |-> None]

\* parse_gsv, "for i in range(4, min(len(parts) - 1, 20), 4)" from index i on;
\* a ValueError leaves the loop with the records appended so far.
RECURSIVE MB_gsv_loop(_, _, _)
RECURSIVE MB_gsv_append(_, _, _, _, _, _, _)
MB_gsv_loop(info, parts, i) ==
  IF i >= Min(Len(parts) - 1, 20) THEN info
  ELSE IF NonEmpty(P(parts, i))
  THEN MB_gsv_append(info, parts, i, IntOrNone(P(parts, i)), MB_IntOrNone(parts, i + 1),
                     MB_IntOrNone(parts, i + 2), MB_IntOrNone(parts, i + 3))
  ELSE MB_gsv_loop(info, parts, i + 4)

\* parse_gsv, the sat_info dict at index i and the append, after the four
\* int() conversions
MB_gsv_append(info, parts, i, prn, el, az, snr) ==
  IF prn.ok /\ el.ok /\ az.ok /\ snr.ok
  THEN MB_gsv_loop(Append(info, [prn |-> prn.v, elevation |-> el.v,
                                  azimuth |-> az.v, snr |-> snr.v]),
                   parts, i + 4)
  ELSE info

\* parse_gsv, the try block after the three int() conversions of the header
MB_gsv_body(d, parts, total_msgs, msg_num, sats_in_view) ==
  IF IsNone(total_msgs) \/ IsNone(msg_num) \/ IsNone(sats_in_view) THEN d
  ELSE [d EXCEPT !.satellites_in_view = sats_in_view,
                 !.satellite_info =
                    MB_gsv_loop(IF Val(msg_num) = 1 THEN <<>> ELSE d.satellite_info, parts, 4)]

\* parse_gsv
MB_parse_gsv(d, parts) ==
  IF Len(parts) < 4 THEN d
  ELSE MB_gsv_body(d, parts, PyInt(P(parts, 1)), PyInt(P(parts, 2)), PyInt(P(parts, 3)))

\* parse_gll, "# Position", once both coordinates are converted: nonzero, and
\* written only while the latitude is None or zero
MB_gll_fill_position(d, lat, lon) ==
  IF /\ ~IsNone(lat) /\ ~IsNone(lon)
     /\ FloatNe(Val(lat), Zero) /\ FloatNe(Val(lon), Zero)
     /\ (IsNone(d.latitude) \/ FloatEq(Val(d.latitude), Zero))
  THEN [d EXCEPT !.latitude = lat, !.longitude = lon]
  ELSE d

\* parse_gll, "# Position"
MB_gll_position(d, parts) ==
  IF /\ NonEmpty(P(parts, 1)) /\ NonEmpty(P(parts, 2))
     /\ NonEmpty(P(parts, 3)) /\ NonEmpty(P(parts, 4))
  THEN MB_gll_fill_position(d, parse_coordinate(P(parts, 1), P(parts, 2)),
                               parse_coordinate(P(parts, 3), P(parts, 4)))
  ELSE d

\* parse_gll, "# Time"
MB_gll_time(d, parts) ==
  IF NonEmpty(P(parts, 5)) /\ (IsNone(d.utc_time) \/ ~NonEmpty(Val(d.utc_time)))
  THEN [d EXCEPT !.utc_time = parse_time(P(parts, 5)),
                 !.local_time = MB_convert_to_local_time(P(parts, 5))]
  ELSE d

\* parse_gll, "# Status"
\* Mutant of MB_gll_status: the status is assigned whenever the field is not
\* empty, as MA_GPSReader does.
MB_gll_status_always(d, parts) ==
  IF NonEmpty(P(parts, 6)) THEN [d EXCEPT !.status = Some(P(parts, 6))] ELSE d

MB_gll_status(d, parts) ==
  IF NonEmpty(P(parts, 6)) /\ (IsNone(d.status) \/ ~NonEmpty(Val(d.status)))
  THEN [d EXCEPT !.status = Some(P(parts, 6))]
  ELSE d

\* parse_gll, "# Mode (if available)"
MB_gll_mode(d, parts) ==
  IF Len(parts) > 7 /\ NonEmpty(P(parts, 7)) /\ (IsNone(d.mode) \/ ~NonEmpty(Val(d.mode)))
  THEN [d EXCEPT !.mode = Some(P(parts, 7))]
  ELSE d

\* parse_gll
MB_parse_gll(d, parts) ==
  IF Len(parts) < 7 THEN d
  ELSE LET d1 == MB_gll_position(d, parts)
           d2 == MB_gll_time(d1, parts)
           d3 == MB_gll_status(d2, parts)
       IN MB_gll_mode(d3, parts)

\* _parse_nmea_sentence, the dispatch on parts[0]
MB_dispatch(d, x, t) ==
  LET sentence_type == P(x.parts, 0)
  IN IF sentence_type \in {<<"$","G","P","R","M","C">>, <<"$","G","N","R","M","C">>}
     THEN [MB_parse_rmc(d, x.parts, t) EXCEPT !.last_rmc = Some(x.sentence)]
     ELSE IF sentence_type \in {<<"$","G","P","G","G","A">>, <<"$","G","N","G","G","A">>}
     THEN [MB_parse_gga(d, x.parts, t) EXCEPT !.last_gga = Some(x.sentence)]
     ELSE IF sentence_type \in {<<"$","G","P","G","S","A">>, <<"$","G","N","G","S","A">>}
     THEN [parse_gsa(d, x.parts, t) EXCEPT !.last_gsa = Some(x.sentence)]
     ELSE IF sentence_type \in {<<"$","G","P","G","S","V">>, <<"$","G","N","G","S","V">>}
     THEN [MB_parse_gsv(d, x.parts) EXCEPT !.last_gsv = Some(x.sentence)]
     ELSE IF sentence_type \in {<<"$","G","P","G","L","L">>, <<"$","G","N","G","L","L">>}
     THEN [MB_parse_gll(d, x.parts) EXCEPT !.last_gll = Some(x.sentence)]
     ELSE d

\* _parse_nmea_sentence on a split sentence x = split_sentence(sentence)
MB_handle(d, x, t) == IF ~x.ok THEN d ELSE MB_dispatch(d, x, t)

\* _parse_nmea_sentence
MB_parse_nmea_sentence(d, sentence, t) == MB_handle(d, split_sentence(sentence), t)

----------------------------------------------------------------------------
(* src/gps_parser.py *)

\* GPSData()
GP_GPSData ==
  [ has_fix |-> FALSE, latitude |-> Zero, longitude |-> Zero, speed_knots |-> Zero,
    time |-> <<>>, date |-> <<>>, satellites |-> 0, altitude |-> Zero,
    hdop |-> Zero, pdop |-> Zero, vdop |-> Zero ]

\* "deg + (min / 60)" and the sign
GP_signed(decimal, negative) == IF negative THEN FloatNeg(decimal) ELSE decimal
GP_decimal(deg, min, negative) ==
  GP_signed(FloatAdd(deg, FloatDiv(min, FloatOfInt(60))), negative)

\* _parse_rmc, the longitude, after the two float() conversions
GP_rmc_longitude(d, parts, lon_deg, lon_min) ==
  IF IsNone(lon_deg) \/ IsNone(lon_min) THEN d
  ELSE [d EXCEPT !.longitude = GP_decimal(Val(lon_deg), Val(lon_min), P(parts, 6) = <<"W">>)]

\* _parse_rmc, the latitude, after the two float() conversions: it is stored
\* before the longitude is converted
GP_rmc_latitude(d, parts, lat_deg, lat_min) ==
  IF IsNone(lat_deg) \/ IsNone(lat_min) THEN d
  ELSE GP_rmc_longitude(
         [d EXCEPT !.latitude = GP_decimal(Val(lat_deg), Val(lat_min), P(parts, 4) = <<"S">>)],
         parts, PyFloat(Slice(P(parts, 5), 0, 3)), PyFloat(From(P(parts, 5), 3)))

\* _parse_rmc, "if parts[3] and parts[5]:"
GP_rmc_position(d, parts) ==
  IF NonEmpty(P(parts, 3)) /\ NonEmpty(P(parts, 5))
  THEN GP_rmc_latitude(d, parts, PyFloat(Slice(P(parts, 3), 0, 2)),
                       PyFloat(From(P(parts, 3), 2)))
  ELSE d

\* "try: gps_data.<field> = v  except ValueError: gps_data.<field> = 0", v
\* being None when the conversion raised
GP_or_zero(d, field, v, zero) == [d EXCEPT ![field] = IF IsNone(v) THEN zero ELSE Val(v)]

\* _parse_rmc, "if parts[7]:"
GP_rmc_speed(d, parts) ==
  IF NonEmpty(P(parts, 7)) THEN GP_or_zero(d, "speed_knots", PyFloat(P(parts, 7)), Zero) ELSE d

\* _parse_rmc, the time and the date
GP_rmc_time(d, parts) ==
  IF NonEmpty(P(parts, 1)) /\ Len(P(parts, 1)) >= 6
  THEN [d EXCEPT !.time = Slice(P(parts, 1), 0, 2) \o <<":">> \o Slice(P(parts, 1), 2, 4)
                            \o <<":">> \o From(P(parts, 1), 4)]
  ELSE d
GP_rmc_date(d, parts) ==
  IF NonEmpty(P(parts, 9)) /\ Len(P(parts, 9)) >= 6
  THEN [d EXCEPT !.date = Slice(P(parts, 9), 2, 4) \o <<"/">> \o Slice(P(parts, 9), 0, 2)
                            \o <<"/", "2", "0">> \o Slice(P(parts, 9), 4, 6)]
  ELSE d

\* _parse_rmc, "if gps_data.has_fix:"
GP_rmc_if_fix(d, parts) == IF d.has_fix THEN GP_rmc_speed(GP_rmc_position(d, parts), parts) ELSE d

\* _parse_rmc on the split sentence
GP_rmc_parts(d, parts) ==
  IF Len(parts) < 12 THEN d
  ELSE GP_rmc_if_fix(
         GP_rmc_date(GP_rmc_time([d EXCEPT !.has_fix = (P(parts, 2) = <<"A">>)], parts), parts),
         parts)

\* _parse_gga on the split sentence
GP_gga_parts(d, parts) ==
  IF Len(parts) < 15 THEN d
  ELSE LET d1 == IF NonEmpty(P(parts, 7)) THEN GP_or_zero(d, "satellites", PyInt(P(parts, 7)), 0)
                 ELSE d
           d2 == IF NonEmpty(P(parts, 8)) THEN GP_or_zero(d1, "hdop", PyFloat(P(parts, 8)), Zero)
                 ELSE d1
       IN IF NonEmpty(P(parts, 9)) /\ P(parts, 10) = <<"M">>
          THEN GP_or_zero(d2, "altitude", PyFloat(P(parts, 9)), Zero)
          ELSE d2

\* _parse_gsa on the split sentence
GP_gsa_parts(d, parts) ==
  IF Len(parts) < 18 THEN d
  ELSE LET d1 == IF NonEmpty(P(parts, 15)) THEN GP_or_zero(d, "pdop", PyFloat(P(parts, 15)), Zero)
                 ELSE d
           d2 == IF NonEmpty(P(parts, 16)) /\ ~IsNone(PyFloat(P(parts, 16)))
                 THEN [d1 EXCEPT !.hdop = Val(PyFloat(P(parts, 16)))]
                 ELSE d1
           last == Split(P(parts, 17), "*")[1]
       IN IF NonEmpty(last) THEN GP_or_zero(d2, "vdop", PyFloat(last), Zero) ELSE d2

\* _process_nmea_data, "msg = sentence[3:6] if (len(sentence) >= 6 ...) else ''"
GP_msg(sentence) == IF Len(sentence) >= 6 THEN Slice(sentence, 3, 6) ELSE <<>>

\* _process_nmea_data, the body of the loop for one sentence
GP_dispatch(d, sentence) ==
  IF GP_msg(sentence) = <<"R","M","C">> THEN GP_rmc_parts(d, Split(sentence, ","))
  ELSE IF GP_msg(sentence) = <<"G","G","A">> THEN GP_gga_parts(d, Split(sentence, ","))
  ELSE IF GP_msg(sentence) = <<"G","S","A">> THEN GP_gsa_parts(d, Split(sentence, ","))
  ELSE d

\* _process_nmea_data, the sentences of the loop: "'$' + sentence.strip()" for
\* each piece of "nmea_data.strip().split('$')" that is not empty
GP_sentences(nmea_data) ==
  LET pieces == SelectSeq(Split(strip(nmea_data), "$"), NonEmpty)
  IN [i \in 1..Len(pieces) |-> <<"$">> \o strip(pieces[i])]

RECURSIVE GP_each(_, _)
GP_each(d, sentences) ==
  IF sentences = <<>> THEN d ELSE GP_each(GP_dispatch(d, Head(sentences)), Tail(sentences))

\* _process_nmea_data: a new GPSData() filled from the sentences of the text
process_nmea_data(nmea_data) == GP_each(GP_GPSData, GP_sentences(nmea_data))

\* the sentences _process_nmea_data hands to _parse_rmc, _parse_gga or _parse_gsa
GP_handed(nmea_data) ==
  SelectSeq(GP_sentences(nmea_data),
            LAMBDA sentence : GP_msg(sentence) \in {<<"R","M","C">>, <<"G","G","A">>, <<"G","S","A">>})

\* GPSReader.timeout_s, 0.5 s, the clock ticking once in half a second
timeout_s == 1

\* the index of the last sep in s (s contains sep), and s.rsplit(sep, 1)
rindex(s, sep) == CHOOSE i \in 1..Len(s) : s[i] = sep /\ \A j \in (i + 1)..Len(s) : s[j] # sep
rsplit_once(s, sep) == <<UpTo(s, rindex(s, sep) - 1), From(s, rindex(s, sep))>>

\* GPSReader._process_buffer on a buffer that is not empty
process_buffer(g) ==
  [g EXCEPT !.current_data = process_nmea_data(g.message_buffer),
            !.parsed = @ \o GP_handed(g.message_buffer),
            !.message_buffer = <<>>]

\* GPSReader.update, "self.has_new_data = False" and the timeout check
update_timeout(g, current_time) ==
  IF (current_time - g.last_data_time) > timeout_s /\ g.message_buffer # <<>>
  THEN [process_buffer(g) EXCEPT !.has_new_data = TRUE]
  ELSE [g EXCEPT !.has_new_data = FALSE]

\* GPSReader.update, the try block, buffer being message_buffer + data
update_buffer(g, buffer, current_time) ==
  IF Contains(buffer, "\n")
  THEN [g EXCEPT !.message_buffer = rsplit_once(buffer, "\n")[2],
                 !.current_data = process_nmea_data(rsplit_once(buffer, "\n")[1]),
                 !.parsed = @ \o GP_handed(rsplit_once(buffer, "\n")[1]),
                 !.has_new_data = TRUE,
                 !.last_data_time = current_time]
  ELSE [g EXCEPT !.message_buffer = buffer, !.last_data_time = current_time]

----------------------------------------------------------------------------
(* Sentences *)

\* src/MA_gpsDisplay.py main, DEBUG case 1: RMC Void without position
RMC_VOID_EMPTY == <<"$","G","P","R","M","C",",","1","2","3","5","1","9",",","V",",",",",",",",",",",",",",","2","3","0","3","9","4",",",",",",","A">>
\* src/MA_gpsDisplay.py main, DEBUG case 2: RMC Active with position
RMC_ACTIVE_P1 == <<"$","G","P","R","M","C",",","1","2","3","5","1","9",",","A",",","4","9","1","6",".","4","5",",","N",",","1","2","3","1","1",".","1","2",",","W",",","0",".","5",",","0","5","4",".","7",",","2","3","0","3","9","4",",",",",",","A">>
\* src/MA_gpsDisplay.py test_zero_coordinates_filtered
RMC_ACTIVE_ZERO == <<"$","G","P","R","M","C",",","1","2","3","5","1","9",",","A",",","0","0","0","0",".","0","0","0",",","N",",","0","0","0","0","0",".","0","0","0",",","E",",","0","2","2",".","4",",","0","8","4",".","4",",","2","3","0","3","9","4",",","0","0","3",".","1",",","W">>
\* src/MB_gpsDisplay.py test_rmc_primary
RMC_ACTIVE_P2 == <<"$","G","P","R","M","C",",","1","2","3","5","1","9",",","A",",","4","8","0","7",".","0","3","8",",","N",",","0","1","1","3","1",".","0","0","0",",","E",",","0","2","2",".","4",",","0","8","4",".","4",",","2","3","0","3","9","4",",","0","0","3",".","1",",","W">>
\* a Void RMC that still carries coordinates (position of test_rmc_primary)
RMC_VOID_P2 == <<"$","G","N","R","M","C",",","1","2","3","5","2","0",",","V",",","4","8","0","7",".","0","3","8",",","N",",","0","1","1","3","1",".","0","0","0",",","E",",",",",",","2","3","0","3","9","4",",",",",",","N">>
\* an RMC whose latitude is not numeric
RMC_BAD_LAT == <<"$","G","P","R","M","C",",","1","2","3","5","1","9",",","A",",","4","9","x","6",".","4","5",",","N",",","1","2","3","1","1",".","1","2",",","W",",","0",".","5",",","0","5","4",".","7",",","2","3","0","3","9","4",",",",",",","A">>
\* src/MB_gpsDisplay.py test_rmc_primary
GGA_P3 == <<"$","G","P","G","G","A",",","1","2","3","5","1","9",",","4","8","0","5",".","0","0","0",",","N",",","0","1","1","3","0",".","0","0","0",",","E",",","1",",","0","8",",","0",".","9",",","5","4","5",".","4",",","M",",","4","6",".","9",",","M",",",",">>
\* src/MB_gpsDisplay.py test_gll_last_resort
GGA_NO_FIX == <<"$","G","P","G","G","A",",","1","2","3","5","1","9",",",",",",",",",",","0",",","0","0",",","0",".","9",",","5","4","5",".","4",",","M",",","4","6",".","9",",","M",",",",">>
\* src/MA_gpsDisplay.py main, DEBUG cases 1 and 3
GLL_ACTIVE_P1 == <<"$","G","P","G","L","L",",","4","9","1","6",".","4","5",",","N",",","1","2","3","1","1",".","1","2",",","W",",","1","2","3","5","2","0",",","A",",","A">>
\* src/MA_gpsDisplay.py main, DEBUG case 2
GLL_VOID_P1 == <<"$","G","P","G","L","L",",","4","9","1","6",".","4","5",",","N",",","1","2","3","1","1",".","1","2",",","W",",","1","2","3","5","2","1",",","V",",","A">>
\* src/MB_gpsDisplay.py test_rmc_primary
GLL_ACTIVE_P4 == <<"$","G","P","G","L","L",",","4","8","0","6",".","0","0","0",",","N",",","0","1","1","3","2",".","0","0","0",",","E",",","1","2","3","5","1","9",",","A">>
\* src/MB_gpsDisplay.py test_invalid_gll_ignored
GLL_VOID_P4 == <<"$","G","P","G","L","L",",","4","8","0","6",".","0","0","0",",","N",",","0","1","1","3","2",".","0","0","0",",","E",",","1","2","3","5","1","9",",","V">>
\* a GLL with an empty status field
GLL_NO_STATUS == <<"$","G","P","G","L","L",",","4","8","0","6",".","0","0","0",",","N",",","0","1","1","3","2",".","0","0","0",",","E",",","1","2","3","5","1","9",",">>
GSA_3D == <<"$","G","P","G","S","A",",","A",",","3",",","0","4",",","0","5",",",",","0","9",",","1","2",",",",",",","2","4",",",",",",",",",",","2",".","5",",","1",".","3",",","2",".","1">>
GSV_1_1 == <<"$","G","P","G","S","V",",","1",",","1",",","0","2",",","0","1",",","4","0",",","0","8","3",",","4","6",",","0","2",",","1","7",",","3","0","8",",","4","1">>

RmcPayloads == {RMC_VOID_EMPTY, RMC_ACTIVE_P1, RMC_ACTIVE_ZERO, RMC_ACTIVE_P2, RMC_VOID_P2,
                RMC_BAD_LAT}
GgaPayloads == {GGA_P3, GGA_NO_FIX}
GllPayloads == {GLL_ACTIVE_P1, GLL_VOID_P1, GLL_ACTIVE_P4, GLL_VOID_P4, GLL_NO_STATUS}
Payloads == RmcPayloads \cup GgaPayloads \cup GllPayloads \cup {GSA_3D, GSV_1_1}

\* A line whose last checksum digit is replaced by another hex digit
CorruptLast(line) == [line EXCEPT ![Len(line)] = IF @ = "0" THEN "1" ELSE "0"]
\* A line whose first checksum digit is replaced by another hex digit
CorruptFirst(line) == [line EXCEPT ![Len(line) - 1] = IF @ = "7" THEN "6" ELSE "7"]

\* Lines built the way the DEBUG driver and the tests build them
ValidLines == {with_checksum(p) : p \in Payloads}
\* Lines with one corrupted checksum digit
CorruptedLines == {CorruptLast(with_checksum(RMC_ACTIVE_P1)),
                   CorruptFirst(with_checksum(GLL_ACTIVE_P1))}
Lines == ValidLines \cup CorruptedLines

\* an RMC with an empty status field
RMC_NO_STATUS == <<"$","G","P","R","M","C",",","1","2","3","5","1","9",",",",","4","9","1","6",".","4","5",",","N",",","1","2","3","1","1",".","1","2",",","W",",","0",".","5",",","0","5","4",".","7",",","2","3","0","3","9","4",",",",",",","A">>
\* an RMC whose time and date fields are not empty but too short for
\* _parse_time and _parse_date
RMC_SHORT_TIME == <<"$","G","P","R","M","C",",","1","2","3","5",",","A",",","4","9","1","6",".","4","5",",","N",",","1","2","3","1","1",".","1","2",",","W",",","0",".","5",",","0","5","4",".","7",",","2","3","0","3",",",",",",","A">>
\* a GGA whose time field is too short for _parse_time
GGA_SHORT_TIME == <<"$","G","P","G","G","A",",","1","2","3","5",",","4","8","0","5",".","0","0","0",",","N",",","0","1","1","3","0",".","0","0","0",",","E",",","1",",","0","8",",","0",".","9",",","5","4","5",".","4",",","M",",","4","6",".","9",",","M",",",",">>
\* a GLL whose time field is too short for _parse_time
GLL_SHORT_TIME == <<"$","G","P","G","L","L",",","4","9","1","6",".","4","5",",","N",",","1","2","3","1","1",".","1","2",",","W",",","1","2","3","5",",","A",",","A">>

\* A sentence with its two-letter talker id replaced
WithTalker(payload, talker) == <<"$">> \o talker \o From(payload, 3)
\* talker ids of GPS+GLONASS, Galileo and BeiDou receivers
Talkers == {<<"G","N">>, <<"G","A">>, <<"B","D">>}
\* the sentences sent under each of these talkers
TalkerPayloads == {RMC_ACTIVE_P1, GLL_ACTIVE_P1}
TalkerLine == [p \in TalkerPayloads, tk \in Talkers |-> with_checksum(WithTalker(p, tk))]

\* Lines of the field-decoding runs
FieldPayloads == {RMC_ACTIVE_P1, RMC_ACTIVE_P2, RMC_NO_STATUS, RMC_SHORT_TIME,
                  GGA_SHORT_TIME, GLL_ACTIVE_P1, GLL_SHORT_TIME}
FieldLines == {with_checksum(p) : p \in FieldPayloads}
              \cup {TalkerLine[p, tk] : p \in TalkerPayloads, tk \in Talkers}

\* src/MA_gpsDisplay.py test_gsv_parsing: a group of three GSV messages, 4 + 4 + 3 satellites
GSV_3_1 == <<"$","G","P","G","S","V",",","3",",","1",",","1","1",",","0","3",",","0","3",",","1","1","1",",","0","0",",","0","4",",","1","5",",","2","7","0",",","0","0",",","0","6",",","0","1",",","0","1","0",",","0","0",",","1","3",",","0","6",",","2","9","2",",","0","0">>
GSV_3_2 == <<"$","G","P","G","S","V",",","3",",","2",",","1","1",",","1","4",",","2","5",",","1","7","0",",","0","0",",","1","6",",","5","7",",","2","0","8",",","3","9",",","1","8",",","6","7",",","2","9","6",",","4","0",",","1","9",",","4","0",",","2","4","6",",","0","0">>
GSV_3_3 == <<"$","G","P","G","S","V",",","3",",","3",",","1","1",",","2","2",",","4","2",",","0","6","7",",","4","2",",","2","4",",","1","4",",","3","1","1",",","4","3",",","2","7",",","0","5",",","2","4","4",",","0","0">>
\* src/MB_gpsDisplay.py test_gsv_satellite_parsing: a group of two GSV messages, 4 + 4 satellites
GSV_2_1 == <<"$","G","P","G","S","V",",","2",",","1",",","0","8",",","0","1",",","4","0",",","0","8","3",",","4","6",",","0","2",",","1","7",",","3","0","8",",","4","1",",","1","2",",","0","7",",","3","4","4",",","3","9",",","1","4",",","2","2",",","2","2","8",",","4","5">>
GSV_2_2 == <<"$","G","P","G","S","V",",","2",",","2",",","0","8",",","1","7",",","4","0",",","2","0","8",",","4","6",",","1","9",",","3","6",",","1","4","9",",","4","2",",","2","4",",","1","2",",","2","7","3",",","4","4",",","2","5",",","2","5",",","1","1","1",",","3","7">>
\* a GSV whose first satellite has an elevation that is not numeric
GSV_BAD_ELEVATION == <<"$","G","P","G","S","V",",","1",",","1",",","0","2",",","0","1",",","4","x",",","0","8","3",",","4","6",",","0","2",",","1","7",",","3","0","8",",","4","1">>
\* an RMC whose speed is not numeric
RMC_BAD_SPEED == <<"$","G","P","R","M","C",",","1","2","3","5","1","9",",","A",",","4","9","1","6",".","4","5",",","N",",","1","2","3","1","1",".","1","2",",","W",",","0",".","x",",","0","5","4",".","7",",","2","3","0","3","9","4",",",",",",","A">>

\* Lines of the satellite runs
GsvPayloads == {GSV_3_1, GSV_3_2, GSV_3_3, GSV_2_1, GSV_2_2, GSV_1_1,
                GSV_BAD_ELEVATION, RMC_BAD_SPEED}
GsvLines == {with_checksum(p) : p \in GsvPayloads}

\* src/MB_gpsDisplay.py test_position_change_tracking, the second sentence:
\* the position of test_rmc_primary moved by 0.001 minute on each axis
RMC_MOVED_P2 == <<"$","G","P","R","M","C",",","1","2","3","5","2","0",",","A",",","4","8","0","7",".","0","3","9",",","N",",","0","1","1","3","1",".","0","0","1",",","E",",","0","2","2",".","4",",","0","8","4",".","4",",","2","3","0","3","9","4",",","0","0","3",".","1",",","W">>
\* the position of test_rmc_primary moved by 0.0001 minute of latitude
RMC_NUDGED_P2 == <<"$","G","P","R","M","C",",","1","2","3","5","2","1",",","A",",","4","8","0","7",".","0","3","8","1",",","N",",","0","1","1","3","1",".","0","0","0","0",",","E",",","0","2","2",".","4",",","0","8","4",".","4",",","2","3","0","3","9","4",",","0","0","3",".","1",",","W">>

\* Lines of the position-change runs
ChangePayloads == {RMC_VOID_EMPTY, RMC_ACTIVE_P1, RMC_ACTIVE_P2, RMC_MOVED_P2, RMC_NUDGED_P2}
ChangeLines == {with_checksum(p) : p \in ChangePayloads}
\* thresholds has_position_changed is called with: 0, 0.00001, 0.00002 and
\* 0.002 degree
Thresholds == {Zero, threshold_default, Literal(<<"0",".","0","0","0","0","2">>), Literal(<<"0",".","0","0","2">>)}

\* Sentences cut short of the fields their parser asks for: an RMC with 11
\* fields, a GGA with 13, a GSA with 17, a GLL with 6 and a GSV with 3
RMC_TRUNCATED == <<"$","G","P","R","M","C",",","1","2","3","5","2","0",",","V",",","4","8","0","7",".","0","3","8",",","N",",","0","1","1","3","1",".","0","0","0",",","E",",","0","2","2",".","4",",","0","8","4",".","4",",","0","1","0","2","0","3",",">>
GGA_TRUNCATED == <<"$","G","P","G","G","A",",","1","2","3","5","2","0",",","4","8","0","5",".","0","0","0",",","N",",","0","1","1","3","0",".","0","0","0",",","E",",","1",",","0","8",",","0",".","7",",","5","4","5",".","4",",","M",",","4","6",".","9",",","M">>
GSA_TRUNCATED == <<"$","G","P","G","S","A",",","A",",","2",",","0","4",",","0","5",",",",","0","9",",","1","2",",",",",",","2","4",",",",",",",",",",","3",".","5",",","2",".","3">>
GLL_TRUNCATED == <<"$","G","P","G","L","L",",","4","8","0","6",".","0","0","0",",","N",",","0","1","1","3","2",".","0","0","0",",","E",",","1","2","3","5","2","0">>
GSV_TRUNCATED == <<"$","G","P","G","S","V",",","1",",","1">>

\* Sentences of types no parser is registered for
VTG == <<"$","G","P","V","T","G",",","0","5","4",".","7",",","T",",","0","3","4",".","4",",","M",",","0","0","5",".","5",",","N",",","0","1","0",".","2",",","K">>
ZDA == <<"$","G","P","Z","D","A",",","2","0","1","5","3","0",".","0","0",",","0","4",",","0","7",",","2","0","0","2",",","0","0",",","0","0">>
\* What the serial port delivers between two line feeds: sentences followed
\* by a carriage return, a sentence behind a stray character, a sentence that
\* lost its first character, text that is no sentence, and a blank line
ReceivedRaw ==
  {with_checksum(p) \o <<"\r">> : p \in {RMC_ACTIVE_P1, GGA_P3, VTG, ZDA}}
    \cup {<<"x">> \o with_checksum(RMC_ACTIVE_P2),
          From(with_checksum(RMC_ACTIVE_P2), 1),
          <<"!">> \o From(with_checksum(RMC_ACTIVE_P2), 1),
          <<"n","o"," ","f","i","x"," ","y","e","t">>,
          <<" ", "\r">>}
ReceivedLines == {strip(raw) : raw \in ReceivedRaw} \ {<<>>}

\* Lines of the truncated-sentence runs
TruncatedPayloads == {RMC_TRUNCATED, GGA_TRUNCATED, GSA_TRUNCATED, GLL_TRUNCATED,
                      GSV_TRUNCATED}
TruncatedLines == {with_checksum(p) :
                     p \in TruncatedPayloads \cup {RMC_ACTIVE_P1, GSA_3D, GSV_1_1}}

\* an RMC whose latitude field spells nan twice
RMC_NAN_LAT == <<"$","G","P","R","M","C",",","1","2","3","5","1","9",",","A",",","n","a","n","n","a","n",",","N",",","1","2","3","1","1",".","1","2",",","W",",","0",".","5",",","0","5","4",".","7",",","2","3","0","3","9","4",",",",",",","A">>

\* Lines of the position-tracking runs: positions that repeat and alternate,
\* from RMC, GGA and GLL, and a latitude that is not a number
TrackingPayloads == {RMC_ACTIVE_P1, RMC_ACTIVE_P2, RMC_NAN_LAT, RMC_VOID_EMPTY, GGA_P3,
                     GLL_ACTIVE_P4, GSA_3D}
TrackingLines == {with_checksum(p) : p \in TrackingPayloads}

\* a GGA without a fix that carries the zero position
GGA_ZERO == <<"$","G","P","G","G","A",",","1","2","3","5","1","9",",","0","0","0","0",".","0","0","0",",","N",",","0","0","0","0","0",".","0","0","0",",","E",",","0",",","0","0",",","0",".","9",",","5","4","5",".","4",",","M",",","4","6",".","9",",","M",",",",">>

\* a GGA that reports no fix (quality 0) with a position, and one that reports
\* a fix (quality 1) with the zero position
GGA_NO_FIX_P3 == <<"$","G","P","G","G","A",",","1","2","3","5","1","9",",","4","8","0","5",".","0","0","0",",","N",",","0","1","1","3","0",".","0","0","0",",","E",",","0",",","0","0",",","0",".","9",",","5","4","5",".","4",",","M",",","4","6",".","9",",","M",",",",">>
GGA_FIX_ZERO == <<"$","G","P","G","G","A",",","1","2","3","5","1","9",",","0","0","0","0",".","0","0","0",",","N",",","0","0","0","0","0",".","0","0","0",",","E",",","1",",","0","8",",","0",".","9",",","5","4","5",".","4",",","M",",","4","6",".","9",",","M",",",",">>
\* Lines of the position-presence runs: of each type that writes a position a
\* sentence with one, one without, a truncated one; a corrupted line
PresencePayloads == {RMC_ACTIVE_P1, RMC_VOID_EMPTY, RMC_BAD_LAT, RMC_TRUNCATED,
                     GGA_P3, GGA_NO_FIX, GGA_ZERO, GGA_NO_FIX_P3, GGA_FIX_ZERO,
                     GGA_TRUNCATED, GSA_3D, GSV_1_1,
                     GLL_ACTIVE_P4, GLL_VOID_P4, GLL_TRUNCATED}
PresenceLines == {with_checksum(p) : p \in PresencePayloads}
                   \cup {CorruptLast(with_checksum(RMC_ACTIVE_P1))}

AllLines == Lines \cup FieldLines \cup GsvLines \cup ChangeLines \cup TruncatedLines
              \cup ReceivedLines \cup PresenceLines \cup TrackingLines

----------------------------------------------------------------------------
(* The two readers fed the same sentence stream *)

\* src/gps_publisher.py, module level: lock, shared, stop_event, the started
\* worker thread and the locals of the UI loop (the same text is in
\* src/gpsDisplay.py)
ThreadsInit ==
  /\ shared = [has_fix |-> FALSE, lat |-> Zero, lon |-> Zero, sats |-> 0]
  /\ lock = None
  /\ stop_event = FALSE
  /\ worker = [pc |-> "while", d |-> None, iteration |-> 0]
  /\ ui = [pc |-> "with", has_fix |-> None, lat |-> None, lon |-> None,
           fix_latched |-> FALSE, prev_lat_str |-> None, prev_lon_str |-> None,
           lat_str |-> None, lon_str |-> None, message |-> None,
           published |-> None, displayed |-> None,
           read |-> [key \in {"has_fix", "lat", "lon"} |-> [iteration |-> 0, d |-> None]]]
  /\ origin = [key \in {"has_fix", "lat", "lon", "sats"} |-> [iteration |-> 0, d |-> None]]

\* src/MA_init.py MA_GPSReader.__init__ (sentence_buffer = ""), with no call of
\* read_and_parse under way and nothing sent to the port
SerialInit ==
  /\ now = 0
  /\ uart = [stream |-> <<>>, arrived |-> 0, taken |-> 0]
  /\ sentence_buffer = <<>>
  /\ rp = [pc |-> "idle", start_time |-> 0, timeout |-> 0, calls |-> 0, carried |-> <<>>]

\* src/gps_parser.py GPSReader.__init__, constructed when the clock reads 0
GpsInit ==
  gps = [message_buffer |-> <<>>, last_data_time |-> 0, current_data |-> GP_GPSData,
         has_new_data |-> FALSE, parsed |-> <<>>]

\* no helper function has been called directly
CallsInit == args = None /\ result = None

Init ==
  /\ ma = MA_GPSData(0)
  /\ mb = MB_GPSData(0)
  /\ clock = 0
  /\ trace = <<>>
  /\ shown = None
  /\ returned = None
  /\ ThreadsInit
  /\ SerialInit
  /\ GpsInit
  /\ CallsInit

\* split_sentence tabulated over the input lines
Decoded == [line \in AllLines |-> split_sentence(line)]

\* One call of _parse_nmea_sentence(line) on each reader; time.time() then
\* reads clock + 1.
Feed(line) ==
  /\ Len(trace) < MaxTrace
  /\ clock' = clock + 1
  /\ ma' = MA_handle(ma, Decoded[line], clock + 1)
  /\ mb' = MB_handle(mb, Decoded[line], clock + 1)
  /\ trace' = Append(trace, line)
  /\ UNCHANGED <<shown, returned>>
  /\ UNCHANGED threads
  /\ UNCHANGED calls
  /\ UNCHANGED serial
  /\ UNCHANGED gps

Next == \E line \in Lines : Feed(line)

Spec == Init /\ [][Next]_vars

\* The same readers fed the field-decoding lines
NextFields == \E line \in FieldLines : Feed(line)

SpecFields == Init /\ [][NextFields]_vars

\* The same readers fed the satellite lines
NextGsv == \E line \in GsvLines : Feed(line)

SpecGsv == Init /\ [][NextGsv]_vars

\* The same readers fed the truncated-sentence lines
NextTruncated == \E line \in TruncatedLines : Feed(line)

SpecTruncated == Init /\ [][NextTruncated]_vars

\* The same readers fed Active and Void RMCs, GGAs with and without a fix,
\* a GSA and Active and Void GLLs
FrameLines == {with_checksum(p) :
                 p \in {RMC_ACTIVE_P1, RMC_VOID_P2, RMC_VOID_EMPTY, GGA_P3, GGA_NO_FIX,
                        GSA_3D, GLL_ACTIVE_P1, GLL_VOID_P1}}

\* MA_GPSReader.<method>(parts), called when time.time() reads t
MA_call(d, method, parts, t) ==
  IF method = "parse_rmc" THEN MA_parse_rmc(d, parts, t)
  ELSE IF method = "parse_gga" THEN MA_parse_gga(d, parts, t)
  ELSE IF method = "parse_gsa" THEN parse_gsa(d, parts, t)
  ELSE IF method = "parse_gsv" THEN MA_parse_gsv(d, parts, t)
  ELSE MA_parse_gll(d, parts, t)
\* GPSReader.<method>(parts) of MB_init.py, called when time.time() reads t
MB_call(d, method, parts, t) ==
  IF method = "parse_rmc" THEN MB_parse_rmc(d, parts, t)
  ELSE IF method = "parse_gga" THEN MB_parse_gga(d, parts, t)
  ELSE IF method = "parse_gsa" THEN parse_gsa(d, parts, t)
  ELSE IF method = "parse_gsv" THEN MB_parse_gsv(d, parts)
  ELSE MB_parse_gll(d, parts)

\* The direct calls tried: each public parse method of each reader, with the
\* comma-separated parts of a sentence of its type
DirectCalls ==
  {[reader |-> reader, method |-> c[1], parts |-> Split(c[2], ",")] :
     reader \in {"MA_GPSReader", "GPSReader"},
     c \in {<<"parse_rmc", RMC_ACTIVE_P2>>, <<"parse_gga", GGA_P3>>,
            <<"parse_gsa", GSA_3D>>, <<"parse_gsv", GSV_1_1>>,
            <<"parse_gll", GLL_VOID_P1>>}}

\* A direct call reader.<method>(parts) of a public parse method, once in a
\* run: no checksum is tested, no last_rmc/last_gga/... is kept and nothing is
\* handed to _parse_nmea_sentence; the other reader is not touched.
\* time.time() reads clock + 1 during the call, and the method returns None.
CallParser(reader, method, parts) ==
  /\ IsNone(result)
  /\ IF reader = "MA_GPSReader"
     THEN ma' = MA_call(ma, method, parts, clock + 1) /\ mb' = mb
     ELSE mb' = MB_call(mb, method, parts, clock + 1) /\ ma' = ma
  /\ args' = Some([reader |-> reader, method |-> method, parts |-> parts])
  /\ result' = Some([call |-> method, value |-> None])
  /\ UNCHANGED <<clock, trace, shown, returned>>
  /\ UNCHANGED threads
  /\ UNCHANGED serial
  /\ UNCHANGED gps

\* the step is a direct call of the method, on either reader
Called(method) == IsNone(args) /\ ~IsNone(args') /\ Val(args').method = method

NextFrame == \E line \in FrameLines : Feed(line)

\* The same lines, and a direct call of a parse method before, between or
\* after them
NextParsers ==
  \/ \E line \in FrameLines : Feed(line)
  \/ \E c \in DirectCalls : CallParser(c.reader, c.method, c.parts)

SpecParsers == Init /\ [][NextParsers]_vars

\* The readers fed positions that repeat and alternate
NextTracking == \E line \in TrackingLines : Feed(line)

SpecTracking == Init /\ [][NextTracking]_vars

\* The readers fed sentences with and without a position
NextPresence == \E line \in PresenceLines : Feed(line)

SpecPresence == Init /\ [][NextPresence]_vars

SpecFrame == Init /\ [][NextFrame]_vars

----------------------------------------------------------------------------
(* Direct calls of with_checksum and _verify_checksum *)

\* The longest text tried after a "*"
MaxTail == 4
\* All sequences over an alphabet up to a length
RECURSIVE SeqsUpTo(_, _)
SeqsUpTo(alphabet, n) ==
  IF n = 0 THEN {<<>>}
  ELSE LET shorter == SeqsUpTo(alphabet, n - 1)
       IN shorter \cup {Append(t, c) : t \in shorter, c \in alphabet}
\* What may follow the "*": the hex digits of ord("J") = 0x4A in both cases,
\* a zero, the pieces of int()'s notation, a blank and a letter that is no digit
TailAlphabet == {"4", "A", "a", "0", "x", "_", " ", "G"}
\* Texts "$" data "*" tail, the data with at most two "J" or with a "*" of its own
StarredTexts ==
  {<<"$">> \o data \o <<"*">> \o tail :
     data \in {<<>>, <<"J">>, <<"J", "J">>, <<"J", "*">>},
     tail \in SeqsUpTo(TailAlphabet, MaxTail)}
\* Payloads to sign: "$" and up to three of "J", "," and "0", and full sentences
SignPayloads ==
  {<<"$">> \o body : body \in SeqsUpTo({"J", ",", "0"}, 3)}
    \cup {RMC_ACTIVE_P1, GGA_P3, VTG}
\* Texts that begin with another character than "$"
Unmarked == {<<"!","J","*","4","A">>, <<"J","*","4","A">>, <<"J","J","*","4","A">>}
Texts == StarredTexts \cup SignPayloads \cup Unmarked

InitChecksum ==
  /\ ma = MA_GPSData(0)
  /\ mb = MB_GPSData(0)
  /\ clock = 0
  /\ trace = <<>>
  /\ shown = None
  /\ returned = None
  /\ ThreadsInit
  /\ SerialInit
  /\ GpsInit
  /\ args \in {Some(text) : text \in Texts}
  /\ result = None

\* with_checksum(payload)
CallWithChecksum ==
  /\ ~IsNone(args) /\ IsNone(result)
  /\ result' = Some([call |-> "with_checksum", value |-> with_checksum(Val(args))])
  /\ UNCHANGED <<args>>
  /\ UNCHANGED serial
  /\ UNCHANGED gps
  /\ UNCHANGED readers
  /\ UNCHANGED threads

\* self._verify_checksum(sentence)
CallVerifyChecksum ==
  /\ ~IsNone(args) /\ IsNone(result)
  /\ result' = Some([call |-> "_verify_checksum", value |-> verify_checksum(Val(args))])
  /\ UNCHANGED <<args>>
  /\ UNCHANGED serial
  /\ UNCHANGED gps
  /\ UNCHANGED readers
  /\ UNCHANGED threads

NextChecksum == CallWithChecksum \/ CallVerifyChecksum

SpecChecksum == InitChecksum /\ [][NextChecksum]_vars

\* A call of gps_data.has_position_changed(threshold) between two sentences
Ask(threshold) ==
  /\ shown' = Some([threshold |-> threshold,
                    changed |-> MA_has_position_changed(ma, threshold)])
  /\ UNCHANGED <<ma, mb, clock, trace, returned>>
  /\ UNCHANGED threads
  /\ UNCHANGED calls
  /\ UNCHANGED serial
  /\ UNCHANGED gps

\* The readers fed the position-change lines and asked for position changes
NextChanged ==
  \/ \E line \in ChangeLines : Feed(line)
  \/ \E threshold \in Thresholds : Ask(threshold)

SpecChanged == Init /\ [][NextChanged]_vars

\* The GPSData object the reader constructs in __init__ and keeps in
\* self.gps_data; no other GPSData object is constructed.
GPS_DATA == "self.gps_data"
\* the content of a GPSData object
Content(object) == IF object = GPS_DATA THEN ma ELSE MA_GPSData(0)

\* read_and_parse, "return self.gps_data": the caller receives the reader's
\* own object; seen records its content at that moment.
Return ==
  /\ returned' = Some([object |-> GPS_DATA, seen |-> ma])
  /\ UNCHANGED <<ma, mb, clock, trace, shown>>
  /\ UNCHANGED threads
  /\ UNCHANGED calls
  /\ UNCHANGED serial
  /\ UNCHANGED gps

\* Lines of the read_and_parse runs
SnapshotLines == {with_checksum(p) : p \in {RMC_ACTIVE_P1, RMC_ACTIVE_P2, GLL_VOID_P1}}

\* read_and_parse called again and again: sentences are handled, and the
\* call returns
NextSnapshot ==
  \/ \E line \in SnapshotLines : Feed(line)
  \/ Return

SpecSnapshot == Init /\ [][NextSnapshot]_vars

----------------------------------------------------------------------------
(* f"{x:.5f}" and f"{x:.6f}" (src/gps_publisher.py) *)

\* n * 2^e rounded to an integer, to the even one of two equally near
RoundedInteger(n, e) == IF e >= 0 THEN BigShl(n, e) ELSE RoundedOff(n, -e, FALSE)
\* |x| * 10^k rounded to an integer
Scaled(x, k) == RoundedInteger(BigMul(x.m, BigPow10(k)), x.e)
\* the digits s with zeros before them up to the width
ZeroFilled(s, width) == [i \in 1..(width - Len(s)) |-> "0"] \o s
\* the digits s with a point before the last k of them
fixed_text(s, k) ==
  IF k = 0 THEN s ELSE SubSeq(s, 1, Len(s) - k) \o <<".">> \o SubSeq(s, Len(s) - k + 1, Len(s))
format_abs(x, k) == fixed_text(ZeroFilled(BigDigits(Scaled(x, k)), k + 1), k)
\* f"{x:.5f}" and f"{x:.6f}" of a float x: the decimal nearest to x, a tie
\* going to the even digit, with the sign of x; "nan", "inf" and "-inf"
format(x, k) ==
  IF IsNaN(x) THEN <<"n","a","n">>
  ELSE (IF x.neg THEN <<"-">> ELSE <<>>) \o (IF IsInf(x) THEN <<"i","n","f">> ELSE format_abs(x, k))

----------------------------------------------------------------------------
(* Direct calls of _parse_coordinate *)

SeqsOfLen(alphabet, n) == {t \in SeqsUpTo(alphabet, n) : Len(t) = n}
\* Integer parts: four digits, five and three digits with a first digit of 0
\* or 1, and two digits
CoordDigits == {"0", "4", "9"}
IntegerParts ==
  SeqsOfLen(CoordDigits, 4)
    \cup {<<h>> \o t : h \in {"0", "1"}, t \in SeqsOfLen(CoordDigits, 4)}
    \cup {<<h>> \o t : h \in {"0", "1"}, t \in SeqsOfLen(CoordDigits, 2)}
    \cup {<<"4","9">>}
\* What follows the integer part
FractionParts == {<<>>, <<".">>, <<".","5">>, <<".","0","3","8">>, <<".","0","0","0","1">>, <<".","4","5","0","0","2">>, <<".","0","0","0","0","1">>}
\* Direction fields: the four letters, an empty field and a lower-case letter
Directions == {<<"N">>, <<"S">>, <<"E">>, <<"W">>, <<>>, <<"s">>}
\* Coordinate fields float() rejects
BadCoords == {<<"4","9","x","6",".","4","5">>, <<"4","9","1","6",".","4",".","5">>, <<>>}
CoordArgs ==
  {[kind |-> "text", coord |-> ip \o fp, direction |-> dir] :
     ip \in IntegerParts, fp \in FractionParts, dir \in Directions}
    \cup {[kind |-> "text", coord |-> c, direction |-> <<"N">>] : c \in BadCoords}

\* Decimal degrees as whole millionths of a degree: every whole degree of the
\* axis with a choice of fractions, and the end of the range
Fractions == {0, 1, 8333, 117300, 500000, 999999}
DegreeValues(limit) ==
  {sign * (deg * 1000000 + f) : sign \in {-1, 1}, deg \in 0..(limit - 1), f \in Fractions}
    \cup {-limit * 1000000, limit * 1000000}
DegreeArgs ==
  {[kind |-> "degrees", axis |-> "latitude", value |-> v] : v \in DegreeValues(90)}
    \cup {[kind |-> "degrees", axis |-> "longitude", value |-> v] : v \in DegreeValues(180)}

\* The minutes of a fraction of a degree, in ten-thousandths of a minute
RoundDiv(a, b) == (2 * a + b) \div (2 * b)
minutes_of(fraction) == RoundDiv(fraction * 60, 100)
\* DDMM.MMMM (latitude) or DDDMM.MMMM (longitude) of an unsigned value, the
\* minutes rounded to four decimals
encode_text(degrees, minutes, degree_digits) ==
  ZeroPad(degrees, degree_digits) \o ZeroPad(minutes \div 10000, 2) \o <<".">>
    \o ZeroPad(minutes % 10000, 4)
\* The coordinate field and the direction letter of a decimal-degree value
encode_coordinate(axis, value) ==
  [coord |-> encode_text(Abs(value) \div 1000000, minutes_of(Abs(value) % 1000000),
                         IF axis = "latitude" THEN 2 ELSE 3),
   direction |-> IF axis = "latitude"
                 THEN (IF value < 0 THEN <<"S">> ELSE <<"N">>)
                 ELSE (IF value < 0 THEN <<"W">> ELSE <<"E">>)]

InitCoordinate ==
  /\ ma = MA_GPSData(0)
  /\ mb = MB_GPSData(0)
  /\ clock = 0
  /\ trace = <<>>
  /\ shown = None
  /\ returned = None
  /\ ThreadsInit
  /\ SerialInit
  /\ GpsInit
  /\ args \in {Some(a) : a \in CoordArgs \cup DegreeArgs}
  /\ result = None

\* a decimal-degree value is written as a coordinate field and a direction
Encode ==
  /\ ~IsNone(args) /\ Val(args).kind = "degrees" /\ IsNone(result)
  /\ result' = Some([call |-> "encode",
                     value |-> encode_coordinate(Val(args).axis, Val(args).value)])
  /\ UNCHANGED <<args>>
  /\ UNCHANGED serial
  /\ UNCHANGED gps
  /\ UNCHANGED readers
  /\ UNCHANGED threads

\* self._parse_coordinate(coord, direction) on a given field
CallParseCoordinate ==
  /\ ~IsNone(args) /\ Val(args).kind = "text" /\ IsNone(result)
  /\ result' = Some([call |-> "_parse_coordinate",
                     value |-> parse_coordinate(Val(args).coord, Val(args).direction)])
  /\ UNCHANGED <<args>>
  /\ UNCHANGED serial
  /\ UNCHANGED gps
  /\ UNCHANGED readers
  /\ UNCHANGED threads

\* self._parse_coordinate(coord, direction) on the field just written
Decode ==
  /\ ~IsNone(result) /\ Val(result).call = "encode"
  /\ result' = Some([call |-> "decode", encoded |-> Val(result).value,
                     value |-> parse_coordinate(Val(result).value.coord,
                                                Val(result).value.direction)])
  /\ UNCHANGED <<args>>
  /\ UNCHANGED serial
  /\ UNCHANGED gps
  /\ UNCHANGED readers
  /\ UNCHANGED threads

NextCoordinate == Encode \/ CallParseCoordinate \/ Decode

SpecCoordinate == InitCoordinate /\ [][NextCoordinate]_vars

----------------------------------------------------------------------------
(* read_and_parse on a serial port, statement by statement
   (src/MA_init.py; src/MB_init.py has the same text) *)

\* The clock stops at MaxNow, and read_and_parse is called at most MaxCalls times
MaxNow == 2
MaxCalls == 2
\* the timeout argument of read_and_parse, in clock ticks
Timeouts == {0, 1}

\* a byte that is not ASCII
BYTE_FF == Chars[255]
CRLF == <<"\r", "\n">>
LF == <<"\n">>

\* What the receiver sends: a fix, a line that is no sentence, a void GLL, and
\* the beginning of a further sentence, behind a byte of noise
StreamFix ==
  <<BYTE_FF>> \o with_checksum(RMC_ACTIVE_P1) \o CRLF \o <<"n","o"," ","f","i","x"," ","y","e","t">> \o <<"\n">>
    \o with_checksum(GLL_VOID_P1) \o CRLF \o <<"$","G","P","G","G">>
\* A void RMC, a blank line, and an indented GLL that brings the position
StreamVoid ==
  with_checksum(RMC_VOID_EMPTY) \o <<"\n", "\n", " ">> \o with_checksum(GLL_ACTIVE_P1)
    \o <<" ">> \o CRLF
Streams == {StreamFix, StreamVoid}

\* Where the arrival of the stream can pause: after a "*", a carriage return
\* or a line feed, and at its end
Cuts(stream) ==
  {k \in 1..Len(stream) : k = Len(stream) \/ stream[k] \in {"*", "\r", "\n"}}

InitSerial ==
  /\ ma = MA_GPSData(0)
  /\ mb = MB_GPSData(0)
  /\ clock = 0
  /\ trace = <<>>
  /\ shown = None
  /\ returned = None
  /\ ThreadsInit
  /\ CallsInit
  /\ now = 0
  /\ uart \in {[stream |-> stream, arrived |-> 0, taken |-> 0] : stream \in Streams}
  /\ sentence_buffer = <<>>
  /\ rp = [pc |-> "idle", start_time |-> 0, timeout |-> 0, calls |-> 0, carried |-> <<>>]
  /\ GpsInit

\* time passes
Tick ==
  /\ now < MaxNow
  /\ now' = now + 1
  /\ UNCHANGED <<uart, sentence_buffer, rp>>
  /\ UNCHANGED readers
  /\ UNCHANGED threads
  /\ UNCHANGED calls
  /\ UNCHANGED gps

\* more of the stream reaches the port
Arrive ==
  /\ \E k \in Cuts(uart.stream) :
       /\ k > uart.arrived
       /\ uart' = [uart EXCEPT !.arrived = k]
  /\ UNCHANGED <<now, sentence_buffer, rp>>
  /\ UNCHANGED readers
  /\ UNCHANGED threads
  /\ UNCHANGED calls
  /\ UNCHANGED gps

\* "start_time = time.time()"; carried remembers the buffer the call found
ReadAndParse(timeout) ==
  /\ rp.pc = "idle"
  /\ rp.calls < MaxCalls
  /\ now + timeout <= MaxNow
  /\ rp' = [pc |-> "while", start_time |-> now, timeout |-> timeout,
            calls |-> rp.calls + 1, carried |-> sentence_buffer]
  /\ UNCHANGED <<now, uart, sentence_buffer>>
  /\ UNCHANGED readers
  /\ UNCHANGED threads
  /\ UNCHANGED calls
  /\ UNCHANGED gps

\* "time.time() - start_time"
elapsed_restarted(t, start_time) == t - t
elapsed(t, start_time) == t - start_time

\* "while (time.time() - start_time) < timeout:"
LoopTest ==
  /\ rp.pc = "while"
  /\ rp' = [rp EXCEPT !.pc = IF elapsed(now, rp.start_time) < rp.timeout
                               THEN "if" ELSE "return"]
  /\ UNCHANGED <<now, uart, sentence_buffer>>
  /\ UNCHANGED readers
  /\ UNCHANGED threads
  /\ UNCHANGED calls
  /\ UNCHANGED gps

\* serial.in_waiting
in_waiting == uart.arrived - uart.taken

\* "if self.serial.in_waiting:"
InWaiting ==
  /\ rp.pc = "if"
  /\ rp' = [rp EXCEPT !.pc = IF in_waiting # 0 THEN "read" ELSE "sleep"]
  /\ UNCHANGED <<now, uart, sentence_buffer>>
  /\ UNCHANGED readers
  /\ UNCHANGED threads
  /\ UNCHANGED calls
  /\ UNCHANGED gps

\* data.decode('ascii', errors='ignore')
decode_ascii(data) == SelectSeq(data, LAMBDA b : Ord(b) < 128)

\* "data = self.serial.read(self.serial.in_waiting)" and
\* "self.sentence_buffer += data.decode('ascii', errors='ignore')"
SerialRead ==
  /\ rp.pc = "read"
  /\ sentence_buffer' =
       sentence_buffer \o decode_ascii(Slice(uart.stream, uart.taken, uart.arrived))
  /\ uart' = [uart EXCEPT !.taken = uart.arrived]
  /\ rp' = [rp EXCEPT !.pc = "split"]
  /\ UNCHANGED now
  /\ UNCHANGED readers
  /\ UNCHANGED threads
  /\ UNCHANGED calls
  /\ UNCHANGED gps

\* the index of the first / of the last sep in s (s contains sep)
find(s, sep) == CHOOSE i \in 1..Len(s) : s[i] = sep /\ \A j \in 1..(i - 1) : s[j] # sep
rfind(s, sep) == CHOOSE i \in 1..Len(s) : s[i] = sep /\ \A j \in (i + 1)..Len(s) : s[j] # sep

\* s.split(sep, 1) for s containing sep
split_at_last(s, sep) == <<UpTo(s, rfind(s, sep) - 1), From(s, rfind(s, sep))>>
split_once(s, sep) == <<UpTo(s, find(s, sep) - 1), From(s, find(s, sep))>>

\* "line = line.strip()", "if line.startswith('$'): self._parse_nmea_sentence(line)"
\* with the buffer already split into pieces = [line, rest]
TakeLine(pieces, line) ==
  /\ sentence_buffer' = pieces[2]
  /\ IF startswith(line, "$")
     THEN \E x \in {split_sentence(line)} :
            /\ ma' = MA_handle(ma, x, now)
            /\ mb' = MB_handle(mb, x, now)
            /\ trace' = Append(trace, line)
     ELSE UNCHANGED <<ma, mb, trace>>
  /\ UNCHANGED rp

\* "while '\n' in self.sentence_buffer:" and one turn of its body
SplitLine ==
  /\ rp.pc = "split"
  /\ IF Contains(sentence_buffer, "\n")
     THEN \E pieces \in {split_once(sentence_buffer, "\n")} :
            \E line \in {strip(pieces[1])} : TakeLine(pieces, line)
     ELSE /\ rp' = [rp EXCEPT !.pc = "while"]
          /\ UNCHANGED <<ma, mb, trace, sentence_buffer>>
  /\ UNCHANGED <<now, uart>>
  /\ UNCHANGED <<clock, shown, returned>>
  /\ UNCHANGED threads
  /\ UNCHANGED calls
  /\ UNCHANGED gps

\* "time.sleep(0.01)"
LoopSleep ==
  /\ rp.pc = "sleep"
  /\ rp' = [rp EXCEPT !.pc = "while"]
  /\ UNCHANGED <<now, uart, sentence_buffer>>
  /\ UNCHANGED readers
  /\ UNCHANGED threads
  /\ UNCHANGED calls
  /\ UNCHANGED gps

\* "return self.gps_data"
ReadReturn ==
  /\ rp.pc = "return"
  /\ rp' = [rp EXCEPT !.pc = "idle"]
  /\ returned' = Some([object |-> GPS_DATA, seen |-> ma])
  /\ UNCHANGED <<now, uart, sentence_buffer>>
  /\ UNCHANGED <<ma, mb, clock, trace, shown>>
  /\ UNCHANGED threads
  /\ UNCHANGED calls
  /\ UNCHANGED gps

\* the statements of a running call
Running == LoopTest \/ InWaiting \/ SerialRead \/ SplitLine \/ LoopSleep \/ ReadReturn

NextSerial == Tick \/ Arrive \/ (\E timeout \in Timeouts : ReadAndParse(timeout)) \/ Running

SpecSerial == InitSerial /\ [][NextSerial]_vars

\* The buffers of the line-splitting runs: up to MaxTrace received lines, each
\* ended by a line feed
RECURSIVE BuffersOf(_)
BuffersOf(n) ==
  IF n = 0 THEN {<<>>}
  ELSE {raw \o LF \o rest : raw \in ReceivedRaw, rest \in BuffersOf(n - 1)}
\* behind them nothing, or the beginning of a further sentence
ReceiveBuffers ==
  {lines \o rest : lines \in UNION {BuffersOf(n) : n \in 0..MaxTrace},
                   rest \in {<<>>, <<"$","G","P","G","G">>}}

\* read_and_parse(1) standing at "while '\n' in self.sentence_buffer:", the
\* port having delivered the whole buffer in one read
InitReceive ==
  /\ ma = MA_GPSData(0)
  /\ mb = MB_GPSData(0)
  /\ clock = 0
  /\ trace = <<>>
  /\ shown = None
  /\ returned = None
  /\ ThreadsInit
  /\ CallsInit
  /\ now = 0
  /\ sentence_buffer \in ReceiveBuffers
  /\ uart = [stream |-> sentence_buffer, arrived |-> Len(sentence_buffer),
             taken |-> Len(sentence_buffer)]
  /\ rp = [pc |-> "split", start_time |-> 0, timeout |-> 1, calls |-> 1, carried |-> <<>>]
  /\ GpsInit

\* read_and_parse, one turn of "while '\n' in self.sentence_buffer:": the
\* line before the first line feed is taken off the buffer, stripped, and
\* handed to _parse_nmea_sentence only if it starts with "$"; trace keeps the
\* line as it was taken and time.time() then reads clock + 1
Receive ==
  /\ rp.pc = "split"
  /\ Contains(sentence_buffer, "\n")
  /\ \E pieces \in {split_once(sentence_buffer, "\n")} :
       /\ sentence_buffer' = pieces[2]
       /\ IF startswith(strip(pieces[1]), "$")
          THEN /\ ma' = MA_handle(ma, Decoded[strip(pieces[1])], clock + 1)
               /\ mb' = MB_handle(mb, Decoded[strip(pieces[1])], clock + 1)
          ELSE UNCHANGED <<ma, mb>>
       /\ trace' = Append(trace, pieces[1])
  /\ clock' = clock + 1
  /\ UNCHANGED <<now, uart, rp>>
  /\ UNCHANGED <<shown, returned>>
  /\ UNCHANGED threads
  /\ UNCHANGED calls
  /\ UNCHANGED gps

NextReceive == Receive

SpecReceive == InitReceive /\ [][NextReceive]_vars

\* What a turn of SplitLine does to the call's position and to the buffer. A
\* step of SpecSerial that changes either of them at "split" is a SplitLine
\* step, and SplitLine is enabled exactly where SplitTurn is.
SplitTurn ==
  /\ rp.pc = "split"
  /\ IF Contains(sentence_buffer, "\n")
     THEN /\ sentence_buffer' = split_once(sentence_buffer, "\n")[2]
          /\ rp' = rp
     ELSE /\ rp' = [rp EXCEPT !.pc = "while"]
          /\ sentence_buffer' = sentence_buffer

\* The same with a clock that advances and a call that keeps executing: every
\* statement of a running call is eventually executed
SpecSerialFair ==
  /\ SpecSerial
  /\ WF_vars(Tick)
  /\ WF_vars(LoopTest \/ InWaiting \/ SerialRead \/ LoopSleep \/ ReadReturn)
  /\ WF_<<rp, sentence_buffer>>(SplitTurn)

----------------------------------------------------------------------------
(* GPSReader.update of src/gps_parser.py on a serial port *)

\* What the receiver sends: a fix and a GGA; DOP values and a Void RMC
StreamFixGga ==
  with_checksum(RMC_ACTIVE_P1) \o CRLF \o with_checksum(GGA_P3) \o CRLF
StreamDopVoid ==
  with_checksum(GSA_3D) \o CRLF \o with_checksum(RMC_VOID_P2) \o CRLF \o <<"$","G","P","G","G">>
GpsStreams == {StreamFixGga, StreamDopVoid}

InitGps ==
  /\ ma = MA_GPSData(0)
  /\ mb = MB_GPSData(0)
  /\ clock = 0
  /\ trace = <<>>
  /\ shown = None
  /\ returned = None
  /\ ThreadsInit
  /\ CallsInit
  /\ now = 0
  /\ uart \in {[stream |-> stream, arrived |-> 0, taken |-> 0] : stream \in GpsStreams}
  /\ sentence_buffer = <<>>
  /\ rp = [pc |-> "idle", start_time |-> 0, timeout |-> 0, calls |-> 0, carried |-> <<>>]
  /\ GpsInit

\* GPSReader.update, on the reader and the port: current_time is read once;
\* what has arrived is read whole
UpdateReader ==
  /\ \E flushed \in {update_timeout(gps, now)} :
       IF in_waiting > 0
       THEN \E buffer \in {flushed.message_buffer
                             \o decode_ascii(Slice(uart.stream, uart.taken, uart.arrived))} :
              gps' = update_buffer(flushed, buffer, now)
       ELSE gps' = flushed
  /\ uart' = [uart EXCEPT !.taken = uart.arrived]

\* GPSReader.update called by a program that does nothing else
UpdateBody ==
  /\ UpdateReader
  /\ UNCHANGED <<now, sentence_buffer, rp>>
  /\ UNCHANGED threads
  /\ UNCHANGED calls

\* GPSReader.update
Update == UpdateBody /\ UNCHANGED readers

\* GPSReader.get_data: "self.update()" and "return self.current_data"
GetData ==
  /\ UpdateBody
  /\ shown' = Some(gps'.current_data)
  /\ UNCHANGED <<ma, mb, clock, trace, returned>>

NextGps == Tick \/ Arrive \/ Update \/ GetData

SpecGps == InitGps /\ [][NextGps]_vars

----------------------------------------------------------------------------
(* src/gps_publisher.py (the same worker and UI loop are in src/gpsDisplay.py) *)

\* An Active RMC on the equator, and one a hundred-thousandth of a minute
\* north of the point 0, 0
RMC_ACTIVE_EQUATOR == <<"$","G","P","R","M","C",",","1","2","3","5","1","9",",","A",",","0","0","0","0",".","0","0","0",",","N",",","0","1","1","3","1",".","0","0","0",",","E",",","0","2","2",".","4",",","0","8","4",".","4",",","2","3","0","3","9","4",",","0","0","3",".","1",",","W">>
RMC_ACTIVE_TINY == <<"$","G","P","R","M","C",",","1","2","3","5","1","9",",","A",",","0","0","0","0",".","0","0","0","0","1",",","N",",","0","0","0","0","0",".","0","0","0","0","0",",","E",",","0","2","2",".","4",",","0","8","4",".","4",",","2","3","0","3","9","4",",","0","0","3",".","1",",","W">>

\* What the receiver sends while the two threads run, each line ended by a
\* line feed: the zero position under an Active status and then the position
\* next to it; a fix on the equator and then a Void RMC; a full position and
\* then a GGA with its satellite count
StreamZeroTiny ==
  with_checksum(RMC_ACTIVE_ZERO) \o LF \o with_checksum(RMC_ACTIVE_TINY) \o LF
StreamEquatorVoid ==
  with_checksum(RMC_ACTIVE_EQUATOR) \o LF \o with_checksum(RMC_VOID_P2) \o LF
StreamFixSats ==
  with_checksum(RMC_ACTIVE_P1) \o LF \o with_checksum(GGA_P3) \o LF
ThreadStreams == {StreamZeroTiny, StreamEquatorVoid, StreamFixSats}

\* the module executed up to "try:", the port holding nothing yet
InitThreads ==
  /\ ma = MA_GPSData(0)
  /\ mb = MB_GPSData(0)
  /\ clock = 0
  /\ trace = <<>>
  /\ shown = None
  /\ returned = None
  /\ ThreadsInit
  /\ CallsInit
  /\ now = 0
  /\ uart \in {[stream |-> stream, arrived |-> 0, taken |-> 0] : stream \in ThreadStreams}
  /\ sentence_buffer = <<>>
  /\ rp = [pc |-> "idle", start_time |-> 0, timeout |-> 0, calls |-> 0, carried |-> <<>>]
  /\ GpsInit

\* Mutant of lock_free: the lock never blocks.
lock_never_blocks(holder) == TRUE

\* threading.Lock: "with lock:" enters only while no thread holds the lock
lock_free(holder) == IsNone(holder)

\* the attribute of d that gps_worker stores under a key of shared
attribute_of(key) ==
  IF key = "has_fix" THEN "has_fix" ELSE IF key = "lat" THEN "latitude"
  ELSE IF key = "lon" THEN "longitude" ELSE "satellites"
\* the statement after the assignment to shared[key] in gps_worker
after_store(key) ==
  IF key = "has_fix" THEN "lat" ELSE IF key = "lat" THEN "lon"
  ELSE IF key = "lon" THEN "sats" ELSE "release"
\* the statement after the read of shared[key] in the UI loop
after_read(key) ==
  IF key = "has_fix" THEN "lat" ELSE IF key = "lat" THEN "lon" ELSE "print"

\* gps_worker, "while not stop_event.is_set():" with the event not set
WorkerLoop ==
  /\ worker.pc = "while" /\ ~stop_event
  /\ worker.iteration < MaxIter
  /\ worker' = [worker EXCEPT !.pc = "get_data"]
  /\ UNCHANGED <<shared, lock, stop_event, ui, origin>>
  /\ UNCHANGED readers
  /\ UNCHANGED calls
  /\ UNCHANGED serial
  /\ UNCHANGED gps

\* gps_worker, "d = gps.get_data()": GPSReader.get_data runs update() on the
\* port and returns current_data
WorkerGet ==
  /\ worker.pc = "get_data"
  /\ UpdateReader
  /\ worker' = [worker EXCEPT !.pc = "with", !.d = Some(gps'.current_data),
                              !.iteration = @ + 1]
  /\ UNCHANGED <<shared, lock, stop_event, ui, origin>>
  /\ UNCHANGED <<now, sentence_buffer, rp>>
  /\ UNCHANGED readers
  /\ UNCHANGED calls

\* gps_worker, the loop test once stop_event is set: "return None"
WorkerReturn ==
  /\ worker.pc = "while" /\ stop_event
  /\ worker' = [worker EXCEPT !.pc = "returned"]
  /\ UNCHANGED <<shared, lock, stop_event, ui, origin>>
  /\ UNCHANGED readers
  /\ UNCHANGED calls
  /\ UNCHANGED serial
  /\ UNCHANGED gps

\* gps_worker, "with lock:" (entry)
WorkerAcquire ==
  /\ worker.pc = "with" /\ lock_free(lock)
  /\ lock' = Some("worker")
  /\ worker' = [worker EXCEPT !.pc = "has_fix"]
  /\ UNCHANGED <<shared, stop_event, ui, origin>>
  /\ UNCHANGED readers
  /\ UNCHANGED calls
  /\ UNCHANGED serial
  /\ UNCHANGED gps

\* gps_worker, 'shared[key] = d.<attribute>'
WorkerStore(key) ==
  /\ worker.pc = key
  /\ shared' = [shared EXCEPT ![key] = Val(worker.d)[attribute_of(key)]]
  /\ origin' = [origin EXCEPT ![key] = [iteration |-> worker.iteration, d |-> worker.d]]
  /\ worker' = [worker EXCEPT !.pc = after_store(key)]
  /\ UNCHANGED <<lock, stop_event, ui>>
  /\ UNCHANGED readers
  /\ UNCHANGED calls
  /\ UNCHANGED serial
  /\ UNCHANGED gps

\* gps_worker, "with lock:" (exit)
WorkerRelease ==
  /\ worker.pc = "release"
  /\ lock' = None
  /\ worker' = [worker EXCEPT !.pc = "sleep"]
  /\ UNCHANGED <<shared, stop_event, ui, origin>>
  /\ UNCHANGED readers
  /\ UNCHANGED calls
  /\ UNCHANGED serial
  /\ UNCHANGED gps

\* gps_worker, "time.sleep(0.05)"
WorkerSleep ==
  /\ worker.pc = "sleep"
  /\ worker' = [worker EXCEPT !.pc = "while"]
  /\ UNCHANGED <<shared, lock, stop_event, ui, origin>>
  /\ UNCHANGED readers
  /\ UNCHANGED calls
  /\ UNCHANGED serial
  /\ UNCHANGED gps

\* UI loop, 'print("Getting the GPS data...")' and "with lock:" (entry)
UiAcquire ==
  /\ ui.pc = "with" /\ lock_free(lock)
  /\ lock' = Some("ui")
  /\ ui' = [ui EXCEPT !.pc = "has_fix"]
  /\ UNCHANGED <<shared, stop_event, worker, origin>>
  /\ UNCHANGED readers
  /\ UNCHANGED calls
  /\ UNCHANGED serial
  /\ UNCHANGED gps

\* UI loop, 'has_fix = shared["has_fix"]', 'lat = shared["lat"]', 'lon = shared["lon"]'
UiRead(key) ==
  /\ ui.pc = key
  /\ ui' = [ui EXCEPT ![key] = Some(shared[key]), !.read[key] = origin[key],
                      !.pc = after_read(key)]
  /\ UNCHANGED <<shared, lock, stop_event, worker, origin>>
  /\ UNCHANGED readers
  /\ UNCHANGED calls
  /\ UNCHANGED serial
  /\ UNCHANGED gps

\* UI loop, the two print calls and "with lock:" (exit)
UiRelease ==
  /\ ui.pc = "print"
  /\ lock' = None
  /\ ui' = [ui EXCEPT !.pc = "latch"]
  /\ UNCHANGED <<shared, stop_event, worker, origin>>
  /\ UNCHANGED readers
  /\ UNCHANGED calls
  /\ UNCHANGED serial
  /\ UNCHANGED gps

\* UI loop, "if not fix_latched and has_fix:"
UiLatch ==
  /\ ui.pc = "latch"
  /\ ui' = IF ~ui.fix_latched /\ Val(ui.has_fix)
           THEN [ui EXCEPT !.fix_latched = TRUE, !.prev_lat_str = None,
                           !.prev_lon_str = None, !.pc = "show"]
           ELSE [ui EXCEPT !.pc = "show"]
  /\ UNCHANGED <<shared, lock, stop_event, worker, origin>>
  /\ UNCHANGED readers
  /\ UNCHANGED calls
  /\ UNCHANGED serial
  /\ UNCHANGED gps

\* the statement after the assignment of line 85, 86, 87
after_format(key) ==
  IF key = "lat_str" THEN "lon_str" ELSE IF key = "lon_str" THEN "message" ELSE "if_new"

\* UI loop, "if fix_latched:"
UiShow ==
  /\ ui.pc = "show"
  /\ ui' = [ui EXCEPT !.pc = IF ui.fix_latched THEN "lat_str" ELSE "sleep"]
  /\ UNCHANGED <<shared, lock, stop_event, worker, origin>>
  /\ UNCHANGED readers
  /\ UNCHANGED calls
  /\ UNCHANGED serial
  /\ UNCHANGED gps

\* UI loop, 'lat_str = f"{lat:.5f}"', 'lon_str = f"{lon:.5f}"' and
\* 'message = f"{lat:.6f},{lon:.6f}"', one assignment a step
UiFormat(key) ==
  /\ ui.pc = key
  /\ ui' = [ui EXCEPT ![key] = IF key = "lat_str" THEN Some(format(Val(ui.lat), 5))
                               ELSE IF key = "lon_str" THEN Some(format(Val(ui.lon), 5))
                               ELSE Some(format(Val(ui.lat), 6) \o <<",">>
                                           \o format(Val(ui.lon), 6)),
                      !.pc = after_format(key)]
  /\ UNCHANGED <<shared, lock, stop_event, worker, origin>>
  /\ UNCHANGED readers
  /\ UNCHANGED calls
  /\ UNCHANGED serial
  /\ UNCHANGED gps

\* Mutant of ui_show: a new text is published whether or not the coordinate is 0.
ui_show_any_text(u) ==
  [u EXCEPT !.pc = IF u.lat_str # u.prev_lat_str \/ u.lon_str # u.prev_lon_str
                   THEN "publish" ELSE "sleep"]

\* UI loop, the test of line 88: "with canvas(device)" is entered when a
\* nonzero coordinate shows a new text
ui_show(u) ==
  [u EXCEPT !.pc = IF \/ (FloatNe(Val(u.lat), Zero) /\ u.lat_str # u.prev_lat_str)
                      \/ (FloatNe(Val(u.lon), Zero) /\ u.lon_str # u.prev_lon_str)
                   THEN "publish" ELSE "sleep"]

\* UI loop, "if (lat != 0 and lat_str != prev_lat_str) or (lon != 0 and
\* lon_str != prev_lon_str):"
UiIfNew ==
  /\ ui.pc = "if_new"
  /\ ui' = ui_show(ui)
  /\ UNCHANGED <<shared, lock, stop_event, worker, origin>>
  /\ UNCHANGED readers
  /\ UNCHANGED calls
  /\ UNCHANGED serial
  /\ UNCHANGED gps

\* UI loop, 'print(f"Sending: {message}")' and "publish.single(...)" returning
UiPublish ==
  /\ ui.pc = "publish"
  /\ ui' = [ui EXCEPT !.published = ui.message, !.pc = "draw"]
  /\ UNCHANGED <<shared, lock, stop_event, worker, origin>>
  /\ UNCHANGED readers
  /\ UNCHANGED calls
  /\ UNCHANGED serial
  /\ UNCHANGED gps

\* UI loop, "publish.single(...)" raising (the broker is not reached): "except
\* KeyboardInterrupt" does not catch the exception, nothing is drawn, and the
\* main thread ends with stop_event not set
UiRaise ==
  /\ ui.pc = "publish"
  /\ ui' = [ui EXCEPT !.pc = "raised"]
  /\ UNCHANGED <<shared, lock, stop_event, worker, origin>>
  /\ UNCHANGED readers
  /\ UNCHANGED calls
  /\ UNCHANGED serial
  /\ UNCHANGED gps

\* UI loop, the five draw calls and the exit of "with canvas(device) as draw:"
UiDraw ==
  /\ ui.pc = "draw"
  /\ ui' = [ui EXCEPT !.displayed = Some(<<Val(ui.lat_str), Val(ui.lon_str)>>),
                      !.pc = "prev_lat_str"]
  /\ UNCHANGED <<shared, lock, stop_event, worker, origin>>
  /\ UNCHANGED readers
  /\ UNCHANGED calls
  /\ UNCHANGED serial
  /\ UNCHANGED gps

\* UI loop, "prev_lat_str = lat_str" and "prev_lon_str = lon_str"
UiRemember(key) ==
  /\ ui.pc = key
  /\ ui' = [ui EXCEPT ![key] = IF key = "prev_lat_str" THEN ui.lat_str ELSE ui.lon_str,
                      !.pc = IF key = "prev_lat_str" THEN "prev_lon_str" ELSE "sleep"]
  /\ UNCHANGED <<shared, lock, stop_event, worker, origin>>
  /\ UNCHANGED readers
  /\ UNCHANGED calls
  /\ UNCHANGED serial
  /\ UNCHANGED gps

\* UI loop, "time.sleep(0.1)"
UiSleep ==
  /\ ui.pc = "sleep"
  /\ ui' = [ui EXCEPT !.pc = "with"]
  /\ UNCHANGED <<shared, lock, stop_event, worker, origin>>
  /\ UNCHANGED readers
  /\ UNCHANGED calls
  /\ UNCHANGED serial
  /\ UNCHANGED gps

\* A KeyboardInterrupt in the main thread. At any statement of "try:" it
\* leaves the loop for the handler, and leaving "with lock:" releases the
\* lock. In the handler nothing catches it and the module ends with the
\* exception: with stop_event not set when it is raised before
\* stop_event.set() has set the flag, with stop_event set when it is raised
\* inside stop_event.set() after the flag is set or as the call returns.
Interrupt ==
  /\ ui.pc \notin {"exit", "raised"}
  /\ ui' = [ui EXCEPT !.pc = IF ui.pc = "except" THEN "raised" ELSE "except"]
  /\ lock' = IF lock = Some("ui") THEN None ELSE lock
  /\ IF ui.pc = "except"
     THEN \E flag_set \in BOOLEAN : stop_event' = (stop_event \/ flag_set)
     ELSE UNCHANGED stop_event
  /\ UNCHANGED <<shared, worker, origin>>
  /\ UNCHANGED readers
  /\ UNCHANGED calls
  /\ UNCHANGED serial
  /\ UNCHANGED gps

\* UI loop, "except KeyboardInterrupt: stop_event.set()"
UiExcept ==
  /\ ui.pc = "except"
  /\ stop_event' = TRUE
  /\ ui' = [ui EXCEPT !.pc = "exit"]
  /\ UNCHANGED <<shared, lock, worker, origin>>
  /\ UNCHANGED readers
  /\ UNCHANGED calls
  /\ UNCHANGED serial
  /\ UNCHANGED gps

NextThreads ==
  \/ Tick
  \/ Arrive
  \/ WorkerLoop
  \/ WorkerGet
  \/ WorkerReturn
  \/ WorkerAcquire
  \/ \E key \in {"has_fix", "lat", "lon", "sats"} : WorkerStore(key)
  \/ WorkerRelease
  \/ WorkerSleep
  \/ UiAcquire
  \/ \E key \in {"has_fix", "lat", "lon"} : UiRead(key)
  \/ UiRelease
  \/ UiLatch
  \/ UiShow
  \/ \E key \in {"lat_str", "lon_str", "message"} : UiFormat(key)
  \/ UiIfNew
  \/ UiPublish
  \/ UiRaise
  \/ UiDraw
  \/ \E key \in {"prev_lat_str", "prev_lon_str"} : UiRemember(key)
  \/ UiSleep
  \/ Interrupt
  \/ UiExcept

SpecThreads == InitThreads /\ [][NextThreads]_vars

----------------------------------------------------------------------------
(* The validity gate of the display loop, on every status/coordinate combination *)

StatusValues == {None, Some(<<"A">>), Some(<<"V">>), Some(<<"a">>)}
CoordValues == {None, Some(Zero), Some(FloatNeg(Zero)), parse_coordinate(<<"4","9","1","6",".","4","5">>, <<"N">>),
                parse_coordinate(<<"1","2","3","1","1",".","1","2">>, <<"W">>)}

InitValid ==
  /\ ma \in {[MA_GPSData(0) EXCEPT !.status = s, !.latitude = la, !.longitude = lo] :
               s \in StatusValues, la \in CoordValues, lo \in CoordValues}
  /\ mb = MB_GPSData(0)
  /\ clock = 0
  /\ trace = <<>>
  /\ shown = None
  /\ returned = None
  /\ ThreadsInit
  /\ SerialInit
  /\ GpsInit
  /\ CallsInit

\* src/MA_gpsDisplay.py main: "if gps_data.is_valid():"
Gate ==
  /\ shown = None
  /\ shown' = Some(MA_is_valid(ma))
  /\ UNCHANGED <<ma, mb, clock, trace, returned>>
  /\ UNCHANGED threads
  /\ UNCHANGED calls
  /\ UNCHANGED serial
  /\ UNCHANGED gps

NextValid == Gate

SpecValid == InitValid /\ [][NextValid]_vars

----------------------------------------------------------------------------
(* Vocabulary of the properties *)

\* The line handed to _parse_nmea_sentence in this step
Fed == trace'[Len(trace')]
\* The checksum-valid line of a payload
LineOf(payload) == with_checksum(payload)
\* The comma-separated fields of a line, field 0 being the talker+type code
FieldsOf(line) == Decoded[line].parts
Field(line, i) == FieldsOf(line)[i + 1]
\* A line that passes the checksum and that MA_GPSReader hands to parse_rmc and that has the
\* twelve fields parse_rmc asks for
IsRmc(line) ==
  /\ Decoded[line].ok
  /\ Field(line, 0) \in {<<"$","G","P","R","M","C">>, <<"$","G","N","R","M","C">>}
  /\ Len(FieldsOf(line)) >= 12
\* ... parse_gga, fourteen fields
IsGga(line) ==
  /\ Decoded[line].ok
  /\ Field(line, 0) \in {<<"$","G","P","G","G","A">>, <<"$","G","N","G","G","A">>}
  /\ Len(FieldsOf(line)) >= 14
\* ... parse_gll, seven fields
IsGll(line) ==
  /\ Decoded[line].ok
  /\ Field(line, 0) \in {<<"$","G","P","G","L","L">>, <<"$","G","N","G","L","L">>}
  /\ Len(FieldsOf(line)) >= 7

\* the quotient of two integers as a float
Quotient(a, b) == FloatDiv(FloatOfInt(a), FloatOfInt(b))
\* degrees and thousandths of a minute as a coordinate value
DegMin(deg, milliMin) == FloatAdd(FloatOfInt(deg), FloatDiv(Quotient(milliMin, 1000), FloatOfInt(60)))
\* the positions the sentences carry
P1_LAT == DegMin(49, 16450)
P1_LON == FloatNeg(DegMin(123, 11120))
P2_LAT == DegMin(48, 7038)
P2_LON == DegMin(11, 31000)
P3_LAT == DegMin(48, 5000)
P3_LON == DegMin(11, 30000)
P4_LAT == DegMin(48, 6000)
P4_LON == DegMin(11, 32000)

\* a pair of decoded coordinates, None when one of them did not decode
PositionPair(la, lo) ==
  IF IsNone(la) \/ IsNone(lo) THEN None ELSE Some(<<Val(la), Val(lo)>>)
\* The position a sentence carries in fields i..i+3, None when a field is
\* empty or not numeric
PositionAt(line, i) ==
  IF \E k \in i..(i + 3) : Field(line, k) = <<>> THEN None
  ELSE PositionPair(parse_coordinate(Field(line, i), Field(line, i + 1)),
                    parse_coordinate(Field(line, i + 2), Field(line, i + 3)))
RmcPosition(line) == PositionAt(line, 3)
GgaPosition(line) == PositionAt(line, 2)
GllPosition(line) == PositionAt(line, 1)
\* a position other than the (0, 0) sentinel
IsFix(pos) == ~IsNone(pos) /\ ~IsZero(Val(pos)[1]) /\ ~IsZero(Val(pos)[2])
\* the position stored in a GPSData record
Stored(d) == IF IsNone(d.latitude) \/ IsNone(d.longitude) THEN None
             ELSE Some(<<Val(d.latitude), Val(d.longitude)>>)

ACTIVE == Some(<<"A">>)
VOID == Some(<<"V">>)

----------------------------------------------------------------------------
(* Properties *)

\* C1 (as claimed; refuted by the code): a checksum-valid GLL never changes a
\* status that is already set.  Stated for the Active half of the claim, the
\* one its example is about: if status is Active before parse_gll, it is
\* Active after it, whatever the GLL's own status field.
C1_GllNeverDemotes ==
  [][(trace' # trace /\ IsGll(Fed) /\ ma.status = ACTIVE) => ma'.status = ACTIVE]_vars

\* C2: a GLL never changes latitude/longitude when both are already present.
C2_GllKeepsPresentPosition ==
  [][(trace' # trace /\ IsGll(Fed) /\ ~IsNone(ma.latitude) /\ ~IsNone(ma.longitude))
       => (ma'.latitude = ma.latitude /\ ma'.longitude = ma.longitude)]_vars

\* C2 witness: an Active GLL with another position was applied after a Void RMC
\* that left coordinates, and the stored position is still the RMC's.
C2_Witness ==
  /\ trace = <<LineOf(RMC_VOID_P2), LineOf(GLL_ACTIVE_P4)>>
  /\ ma.status = ACTIVE
  /\ Stored(ma) = Some(<<P2_LAT, P2_LON>>)

\* C3: fresh reader, RMC Void without position, then GLL Active with a valid
\* position: status is Active and both coordinates are present.
C3_GllFillsGap ==
  (/\ Len(trace) = 2
   /\ IsRmc(trace[1]) /\ Field(trace[1], 2) = <<"V">> /\ RmcPosition(trace[1]) = None
   /\ \A k \in 3..6 : Field(trace[1], k) = <<>>
   /\ IsGll(trace[2]) /\ Field(trace[2], 6) = <<"A">> /\ IsFix(GllPosition(trace[2])))
  => (ma.status = ACTIVE /\ ~IsNone(ma.latitude) /\ ~IsNone(ma.longitude))

\* C3 witness: the two sentences of DEBUG case 1 were applied and the GLL's
\* position is stored.
C3_Witness ==
  /\ trace = <<LineOf(RMC_VOID_EMPTY), LineOf(GLL_ACTIVE_P1)>>
  /\ ma.status = ACTIVE
  /\ Stored(ma) = Some(<<P1_LAT, P1_LON>>)

\* C4: a line with a corrupted checksum digit leaves every field of the
\* GPSData record as it was.
C4_CorruptedLineRejected ==
  [][(trace' # trace /\ Fed \in CorruptedLines) => ma' = ma]_vars

\* C4 witness: a corrupted line was handed over after a good RMC and the record
\* is the one the RMC left (last_update still 1, position P1).
C4_Witness ==
  /\ Len(trace) = 2
  /\ trace[1] = LineOf(RMC_ACTIVE_P1)
  /\ trace[2] \in CorruptedLines
  /\ clock = 2
  /\ ma.last_update = Some(1)
  /\ Stored(ma) = Some(<<P1_LAT, P1_LON>>)

\* C5: fresh reader, one GLL with status Active and valid nonzero coordinates:
\* is_valid() is true.
C5_GllAloneIsValid ==
  (/\ Len(trace) = 1
   /\ IsGll(trace[1]) /\ Field(trace[1], 6) = <<"A">> /\ IsFix(GllPosition(trace[1])))
  => MA_is_valid(ma)

\* C5 witness: the Active GLL of the DEBUG driver alone made the record valid.
C5_Witness ==
  /\ trace = <<LineOf(GLL_ACTIVE_P1)>>
  /\ MA_is_valid(ma)
  /\ Stored(ma) = Some(<<P1_LAT, P1_LON>>)

\* C6: after an Active RMC with all-zero coordinates on a fresh reader,
\* is_valid() is false, and stays false after any number of Active GLLs with
\* valid nonzero coordinates.
C6_ZeroSentinelStays ==
  (/\ Len(trace) >= 1
   /\ IsRmc(trace[1]) /\ Field(trace[1], 2) = <<"A">>
   /\ RmcPosition(trace[1]) = Some(<<Zero, Zero>>)
   /\ \A k \in 2..Len(trace) :
        IsGll(trace[k]) /\ Field(trace[k], 6) = <<"A">> /\ IsFix(GllPosition(trace[k])))
  => ~MA_is_valid(ma)

\* C6 witness: two Active GLLs followed the zero RMC; the zero pair is still
\* stored and the record is not valid.
C6_Witness ==
  /\ trace = <<LineOf(RMC_ACTIVE_ZERO), LineOf(GLL_ACTIVE_P1), LineOf(GLL_ACTIVE_P4)>>
  /\ ma.status = ACTIVE
  /\ Stored(ma) = Some(<<Zero, Zero>>)
  /\ ~MA_is_valid(ma)

\* C7: is_valid() is true iff status is Active and both coordinates are
\* present and neither is zero.
C7_IsValidIff ==
  ~IsNone(shown) =>
    (Val(shown) <=> (/\ ma.status = ACTIVE
                     /\ ma.latitude # None /\ ma.longitude # None
                     /\ ~IsZero(Val(ma.latitude)) /\ ~IsZero(Val(ma.longitude))))

\* C7 witness: the gate was read on an Active record whose latitude is nonzero
\* and whose longitude is zero, and it said no.
C7_Witness ==
  /\ shown = Some(FALSE)
  /\ ma.status = ACTIVE
  /\ ma.latitude = Some(P1_LAT)
  /\ ma.longitude = Some(Zero)

\* C8: an RMC whose coordinates both decode sets latitude/longitude to its
\* values, whatever its status and whatever was stored.
C8_RmcOverwritesPosition ==
  [][(trace' # trace /\ IsRmc(Fed) /\ ~IsNone(RmcPosition(Fed)))
       => Stored(ma') = RmcPosition(Fed)]_vars

\* C8 witness: a Void RMC replaced the valid position of an Active RMC.
C8_Witness ==
  /\ trace = <<LineOf(RMC_ACTIVE_P1), LineOf(RMC_VOID_P2)>>
  /\ ma.status = VOID
  /\ Stored(ma) = Some(<<P2_LAT, P2_LON>>)
  /\ ma.previous_latitude = Some(P1_LAT)

\* C9: a GGA whose coordinates both decode sets latitude/longitude to its
\* values, also when an RMC position is already stored.
C9_GgaOverwritesPosition ==
  [][(trace' # trace /\ IsGga(Fed) /\ ~IsNone(GgaPosition(Fed)))
       => Stored(ma') = GgaPosition(Fed)]_vars

\* C9 witness: a GGA replaced the position of an Active RMC.
C9_Witness ==
  /\ trace = <<LineOf(RMC_ACTIVE_P1), LineOf(GGA_P3)>>
  /\ ma.status = ACTIVE
  /\ Stored(ma) = Some(<<P3_LAT, P3_LON>>)

\* C10 (as claimed; refuted by the code): after an Active RMC with a valid
\* position, a GGA with a different valid position and a GLL with yet another
\* position, both readers store the RMC's coordinates.
C10_RmcIsPrimary ==
  (/\ Len(trace) = 3
   /\ IsRmc(trace[1]) /\ Field(trace[1], 2) = <<"A">> /\ IsFix(RmcPosition(trace[1]))
   /\ IsGga(trace[2]) /\ IsFix(GgaPosition(trace[2]))
   /\ GgaPosition(trace[2]) # RmcPosition(trace[1])
   /\ IsGll(trace[3]) /\ IsFix(GllPosition(trace[3]))
   /\ GllPosition(trace[3]) \notin {RmcPosition(trace[1]), GgaPosition(trace[2])})
  => (Stored(ma) = RmcPosition(trace[1]) /\ Stored(mb) = RmcPosition(trace[1]))

\* C11: after any RMC with at least twelve fields, status is the sentence's
\* status field verbatim, and absent when that field is empty.
C11_RmcStatusVerbatim ==
  [][(trace' # trace /\ IsRmc(Fed))
       => ma'.status = IF Field(Fed, 2) = <<>> THEN None ELSE Some(Field(Fed, 2))]_vars

\* C11 witness: an RMC with an empty status field erased an Active status.
C11_Witness ==
  /\ trace = <<LineOf(RMC_ACTIVE_P1), LineOf(RMC_NO_STATUS)>>
  /\ ma.status = None
  /\ Stored(ma) = Some(<<P1_LAT, P1_LON>>)

\* the Optional fields of GPSData that hold decoded values
OptionalFields ==
  {"latitude", "longitude", "altitude", "utc_time", "local_time", "date",
   "fix_quality", "fix_type", "satellites_used", "satellites_in_view",
   "hdop", "vdop", "pdop", "speed_knots", "speed_kmh", "course", "mode", "status"}

\* C12 (as claimed; refuted by the code): no sentence changes a field from
\* present to absent, the status under an RMC excepted; in particular
\* utc_time and date stay present after a sentence whose time or date field
\* is not empty but cannot be decoded.
C12_PresentStaysPresent ==
  [][trace' # trace =>
       \A f \in OptionalFields :
         (~IsNone(ma[f]) /\ ~(f = "status" /\ IsRmc(Fed))) => ~IsNone(ma'[f])]_vars

\* a GPSData record without the raw sentences it keeps
Readings(d) ==
  [d EXCEPT !.last_rmc = None, !.last_gga = None, !.last_gsa = None,
            !.last_gsv = None, !.last_gll = None]

\* C13 (as claimed; refuted by the code): a sentence sent under another
\* two-letter talker id is decoded by both readers exactly as the same
\* sentence under GP.
C13_TalkerIgnored ==
  [][trace' # trace =>
       \A p \in TalkerPayloads, tk \in Talkers :
         Fed = TalkerLine[p, tk] =>
           /\ Readings(ma') = Readings(MA_handle(ma, Decoded[LineOf(p)], clock'))
           /\ Readings(mb') = Readings(MB_handle(mb, Decoded[LineOf(p)], clock'))]_vars

\* A line that passes the checksum and that both readers hand to parse_gsv
IsGsv(line) == Decoded[line].ok /\ Field(line, 0) \in {<<"$","G","P","G","S","V">>, <<"$","G","N","G","S","V">>}
\* the number of four-field satellite blocks of a GSV line
SatCount(line) == (Len(FieldsOf(line)) - 4) \div 4
\* satellite block j (from 0) of a GSV line has four numeric fields
SatNumeric(line, j) ==
  \A k \in 0..3 : Field(line, 4 + 4 * j + k) # <<>> /\ AllDigits(Field(line, 4 + 4 * j + k))
\* the record of satellite block j
SatRecord(line, j) ==
  [prn |-> PyInt(Field(line, 4 + 4 * j)), elevation |-> PyInt(Field(line, 5 + 4 * j)),
   azimuth |-> PyInt(Field(line, 6 + 4 * j)), snr |-> PyInt(Field(line, 7 + 4 * j))]
\* the records of a GSV line, in the order of the line
SatsOf(line) == [j \in 1..SatCount(line) |-> SatRecord(line, j - 1)]
\* a GSV line whose header and satellite blocks are all numeric
WellFormedGsv(line) ==
  /\ IsGsv(line)
  /\ \A k \in 1..3 : AllDigits(Field(line, k)) /\ Field(line, k) # <<>>
  /\ \A j \in 0..(SatCount(line) - 1) : SatNumeric(line, j)

\* C14: the first message of a GSV group replaces the satellite records by its
\* own, every later message appends its records, and satellites_in_view is the
\* count the message declares; after the messages of a group in order the
\* records are their satellites in arrival order (4 + 4 + 3 gives 11, 4 + 4
\* gives 8).
C14_GsvGroupAccumulates ==
  /\ [][(trace' # trace /\ WellFormedGsv(Fed)) =>
          /\ ma'.satellites_in_view = PyInt(Field(Fed, 3))
          /\ ma'.satellite_info =
               (IF PyInt(Field(Fed, 2)) = Some(1) THEN <<>> ELSE ma.satellite_info)
                 \o SatsOf(Fed)]_vars
  /\ [](trace = <<LineOf(GSV_3_1), LineOf(GSV_3_2), LineOf(GSV_3_3)>> =>
          /\ Len(ma.satellite_info) = 11 /\ ma.satellites_in_view = Some(11)
          /\ ma.satellite_info =
               SatsOf(LineOf(GSV_3_1)) \o SatsOf(LineOf(GSV_3_2)) \o SatsOf(LineOf(GSV_3_3)))
  /\ [](trace = <<LineOf(GSV_1_1), LineOf(GSV_2_1), LineOf(GSV_2_2)>> =>
          /\ Len(ma.satellite_info) = 8 /\ ma.satellites_in_view = Some(8)
          /\ ma.satellite_info = SatsOf(LineOf(GSV_2_1)) \o SatsOf(LineOf(GSV_2_2)))

\* C14 witness: the three messages of a group arrived in order and the eleven
\* satellites are recorded, the last one being PRN 27.
C14_Witness ==
  /\ trace = <<LineOf(GSV_3_1), LineOf(GSV_3_2), LineOf(GSV_3_3)>>
  /\ Len(ma.satellite_info) = 11
  /\ ma.satellite_info[11].prn = Some(27)
  /\ ma.satellites_in_view = Some(11)

\* C15 (as claimed; refuted by the code): a satellite of a GSV message whose
\* four fields are numeric is recorded, also when a field of another
\* satellite of that message is not numeric.
C15_GsvBadFieldIsolated ==
  [][(trace' # trace /\ IsGsv(Fed)) =>
       \A j \in 0..(SatCount(Fed) - 1) :
         SatNumeric(Fed, j) =>
           \E n \in 1..Len(ma'.satellite_info) : ma'.satellite_info[n] = SatRecord(Fed, j)]_vars

\* C16: in every reachable state the latitude and the longitude are both
\* present or both absent.
C16_LatLonTogether ==
  /\ IsNone(ma.latitude) <=> IsNone(ma.longitude)
  /\ IsNone(mb.latitude) <=> IsNone(mb.longitude)

\* C16 witness: an RMC whose longitude decodes and whose latitude does not was
\* handled, and neither coordinate is stored.
C16_Witness ==
  /\ trace = <<LineOf(RMC_BAD_LAT)>>
  /\ ~IsNone(parse_coordinate(Field(trace[1], 5), Field(trace[1], 6)))
  /\ IsNone(ma.latitude) /\ IsNone(ma.longitude)
  /\ ma.status = ACTIVE

\* A line that passes the checksum and that MA_GPSReader hands to parse_gsa,
\* with the eighteen fields parse_gsa asks for
IsGsa(line) ==
  /\ Decoded[line].ok
  /\ Field(line, 0) \in {<<"$","G","P","G","S","A">>, <<"$","G","N","G","S","A">>}
  /\ Len(FieldsOf(line)) >= 18
\* the HDOP a GSA line (field 16) or a GGA line (field 8) carries, None when
\* the field is empty or not numeric
GsaHdop(line) == IF Field(line, 16) = <<>> THEN None ELSE PyFloat(Field(line, 16))
GgaHdop(line) == IF Field(line, 8) = <<>> THEN None ELSE PyFloat(Field(line, 8))
\* the sentences handled so far that supplied an HDOP
GsaWithHdop == {i \in 1..Len(trace) : IsGsa(trace[i]) /\ ~IsNone(GsaHdop(trace[i]))}
GgaWithHdop == {i \in 1..Len(trace) : IsGga(trace[i]) /\ ~IsNone(GgaHdop(trace[i]))}
\* the largest element of a non-empty set of integers
Latest(S) == CHOOSE i \in S : \A k \in S : k <= i

\* C17 (as claimed; refuted by the code): once a GSA and a GGA have both
\* supplied an HDOP, the stored hdop is the one of the latest GSA, in whichever
\* order the two sentences arrived.
C17_GsaHdopWins ==
  (GsaWithHdop # {} /\ GgaWithHdop # {}) => ma.hdop = GsaHdop(trace[Latest(GsaWithHdop)])

\* the previous position stored in a GPSData record
Previous(d) == <<d.previous_latitude, d.previous_longitude>>
\* two positions more than a threshold apart on some axis
FarApart(pos, other, threshold) ==
  \/ FloatLt(threshold, FloatAbs(FloatSub(Val(pos)[1], Val(other)[1])))
  \/ FloatLt(threshold, FloatAbs(FloatSub(Val(pos)[2], Val(other)[2])))
\* two RMCs with different positions were handled by a fresh reader
TwoRmcPositions ==
  /\ Len(trace) = 2 /\ IsRmc(trace[1]) /\ IsRmc(trace[2])
  /\ ~IsNone(RmcPosition(trace[1])) /\ ~IsNone(RmcPosition(trace[2]))
  /\ RmcPosition(trace[1]) # RmcPosition(trace[2])

\* C18 (as claimed; refuted): after two RMCs with different positions,
\* previous_* is the first position and has_position_changed() is true.
C18_AsClaimed ==
  TwoRmcPositions =>
    /\ PositionPair(ma.previous_latitude, ma.previous_longitude) = RmcPosition(trace[1])
    /\ MA_has_position_changed(ma, threshold_default)

\* C18 (amended): an RMC whose position differs from the stored one moves the
\* stored one into previous_* before overwriting it, and an RMC whose position
\* equals the stored one leaves previous_* unchanged; after two RMCs with
\* different positions previous_* is the first position, and
\* has_position_changed() is true exactly when the two positions are more than
\* the threshold apart on some axis.
C18_RmcShiftsPrevious ==
  /\ [][(trace' # trace /\ IsRmc(Fed) /\ ~IsNone(RmcPosition(Fed))) =>
          Previous(ma') = IF RmcPosition(Fed) # Stored(ma)
                          THEN <<ma.latitude, ma.longitude>> ELSE Previous(ma)]_vars
  /\ [](TwoRmcPositions =>
          /\ PositionPair(ma.previous_latitude, ma.previous_longitude) = RmcPosition(trace[1])
          /\ MA_has_position_changed(ma, threshold_default)
                <=> FarApart(RmcPosition(trace[1]), RmcPosition(trace[2]), threshold_default))

\* C18 witness: the two sentences of test_position_change_tracking were
\* handled; previous_* is the first position and the position has changed.
C18_Witness ==
  /\ trace = <<LineOf(RMC_ACTIVE_P2), LineOf(RMC_MOVED_P2)>>
  /\ Previous(ma) = <<Some(P2_LAT), Some(P2_LON)>>
  /\ Stored(ma) = Some(<<DegMin(48, 7039), DegMin(11, 31001)>>)
  /\ MA_has_position_changed(ma, threshold_default)

\* C19: has_position_changed(threshold) answers true exactly when no previous
\* position is recorded, or the latitude differs from the previous latitude by
\* more than the threshold, or the longitude does from the previous longitude.
C19_ChangedIff ==
  [][(shown' # None /\ UNCHANGED <<ma, trace>>) =>
       (Val(shown').changed <=>
          \/ IsNone(ma.previous_latitude) \/ IsNone(ma.previous_longitude)
          \/ FloatLt(Val(shown').threshold,
                     FloatAbs(FloatSub(Val(ma.latitude), Val(ma.previous_latitude))))
          \/ FloatLt(Val(shown').threshold,
                     FloatAbs(FloatSub(Val(ma.longitude), Val(ma.previous_longitude)))))]_vars

\* C19 witness: after a move of 0.001 minute (about 0.0000167 degree) on each
\* axis the answer for a threshold of 0.00002 degree is false.
C19_Witness ==
  /\ trace = <<LineOf(RMC_ACTIVE_P2), LineOf(RMC_MOVED_P2)>>
  /\ Previous(ma) = <<Some(P2_LAT), Some(P2_LON)>>
  /\ shown = Some([threshold |-> Literal(<<"0",".","0","0","0","0","2">>), changed |-> FALSE])

\* C20 (as claimed; refuted by the code): the value read_and_parse handed to
\* its caller is not changed by a sentence handled later, that is, the caller
\* still reads from it what it held at the return.
C20_SnapshotIsCopy ==
  ~IsNone(returned) => Content(Val(returned).object) = Val(returned).seen

\* the positions of the UI loop at which has_fix, lat and lon are the three
\* values of one pass through "with lock:"
TripleRead ==
  ui.pc \in {"print", "latch", "show", "lat_str", "lon_str", "message", "if_new",
             "publish", "draw", "prev_lat_str", "prev_lon_str", "sleep"}
\* the three values are those of the object d
TripleOf(d) ==
  /\ ui.has_fix = Some(d.has_fix)
  /\ ui.lat = Some(d.latitude)
  /\ ui.lon = Some(d.longitude)
\* only the worker, holding the lock, writes the shared dict
WorkerIsSoleWriter ==
  [][(shared' # shared \/ origin' # origin) =>
          /\ lock = Some("worker")
          /\ worker.pc \in {"has_fix", "lat", "lon", "sats"}
          /\ ui' = ui]_vars

\* C21 as claimed: every has_fix, lat and lon the UI loop holds after its
\* three reads were stored by one and the same worker iteration from its
\* GPSData object, and only the worker writes the shared dict.
C21_AsClaimed ==
  /\ [](TripleRead =>
          /\ ui.read.has_fix = ui.read.lat /\ ui.read.lat = ui.read.lon
          /\ ui.read.lon.iteration >= 1
          /\ TripleOf(Val(ui.read.lon.d)))
  /\ WorkerIsSoleWriter

\* C21: the has_fix, lat and lon the UI loop holds after its three reads are
\* either the three values the module put into the dict (False, 0.0, 0.0), no
\* worker iteration having stored yet, or were stored by one and the same
\* worker iteration and are the values of the GPSData object of that
\* iteration; and only the worker, holding the lock, writes the shared dict.
C21_ConsistentTriple ==
  /\ [](TripleRead =>
          /\ ui.read.has_fix = ui.read.lat /\ ui.read.lat = ui.read.lon
          /\ IF ui.read.lon.iteration = 0
             THEN ui.has_fix = Some(FALSE) /\ ui.lat = Some(Zero) /\ ui.lon = Some(Zero)
             ELSE TripleOf(Val(ui.read.lon.d)))
  /\ WorkerIsSoleWriter

\* C21 witness: the UI holds the lock and has read the three values that the
\* second worker iteration stored.
C21_Witness ==
  /\ ui.pc = "print" /\ lock = Some("ui")
  /\ \A key \in {"has_fix", "lat", "lon"} : ui.read[key].iteration = 2
  /\ ui.has_fix = Some(TRUE)
  /\ worker.iteration = 2

\* the type of a sentence: characters 3..5 of field 0
TypeOf(line) == Slice(Field(line, 0), 3, 6)
\* the fewest fields the parser of a sentence type asks for
MinFields(type) ==
  IF type = <<"R","M","C">> THEN 12 ELSE IF type = <<"G","G","A">> THEN 14 ELSE IF type = <<"G","S","A">> THEN 18
  ELSE IF type = <<"G","L","L">> THEN 7 ELSE 4
\* A line that passes the checksum, is of one of the five types under the GP
\* talker and has fewer fields than its type asks for
IsTruncated(line) ==
  /\ Decoded[line].ok
  /\ Field(line, 0) \in {<<"$","G","P","R","M","C">>, <<"$","G","P","G","G","A">>, <<"$","G","P","G","S","A">>, <<"$","G","P","G","L","L">>, <<"$","G","P","G","S","V">>}
  /\ Len(FieldsOf(line)) < MinFields(TypeOf(line))

\* C22: a sentence with fewer fields than its type's minimum changes no
\* decoded field of either reader: position, time, date, status, DOP values,
\* satellite data and last_update stay as they were.
C22_TruncatedRejected ==
  [][(trace' # trace /\ IsTruncated(Fed)) =>
       (Readings(ma') = Readings(ma) /\ Readings(mb') = Readings(mb))]_vars

\* C22 witness: an RMC with eleven fields, Void and with another position
\* and date, was handled after an Active RMC and left its fix in place.
C22_Witness ==
  /\ trace = <<LineOf(RMC_ACTIVE_P1), LineOf(RMC_TRUNCATED)>>
  /\ Len(FieldsOf(trace[2])) = 11
  /\ ma.status = ACTIVE /\ Stored(ma) = Some(<<P1_LAT, P1_LON>>)
  /\ ma.last_update = Some(1)
  /\ ma.last_rmc = Some(RMC_TRUNCATED)

\* C23: a GGA sentence never changes the status: in either reader the status
\* after the sentence, and after a direct call of parse_gga, is the status
\* before it.
C23_GgaKeepsStatus ==
  [][((trace' # trace /\ IsGga(Fed)) \/ Called("parse_gga")) =>
       (ma'.status = ma.status /\ mb'.status = mb.status)]_vars

\* C23 witness: a GGA reporting fix quality 0 was applied after an Active RMC;
\* the quality is stored and the status is still Active.
C23_Witness ==
  /\ trace = <<LineOf(RMC_ACTIVE_P1), LineOf(GGA_NO_FIX)>>
  /\ IsGga(trace[2])
  /\ ma.fix_quality = Some(0) /\ ma.last_update = Some(2)
  /\ ma.status = ACTIVE /\ mb.status = ACTIVE

\* the fields parse_gsa assigns
GsaFields == {"fix_type", "pdop", "hdop", "vdop", "last_update"}
\* the decoded fields of a reader other than those parse_gsa assigns
OutsideGsa(d) == [f \in (DOMAIN Readings(d)) \ GsaFields |-> Readings(d)[f]]

\* C24: a GSA sentence leaves the status, the position and the previous
\* position as they were, and every other decoded field too except fix_type,
\* pdop, hdop, vdop and last_update (the raw sentence kept in last_gsa is
\* written by the dispatcher, not by parse_gsa). The same holds of a direct
\* call of parse_gsa.
C24_GsaFrame ==
  [][((trace' # trace /\ IsGsa(Fed)) \/ Called("parse_gsa")) =>
       /\ ma'.status = ma.status
       /\ Stored(ma') = Stored(ma)
       /\ Previous(ma') = Previous(ma)
       /\ OutsideGsa(ma') = OutsideGsa(ma)
       /\ OutsideGsa(mb') = OutsideGsa(mb)]_vars

\* C24 witness: a GSA reporting a 3D fix was applied after a Void RMC that
\* followed an Active one; fix_type, the three DOP values and last_update are
\* the GSA's, the status is still Void and both positions are in place.
C24_Witness ==
  /\ trace = <<LineOf(RMC_ACTIVE_P1), LineOf(RMC_VOID_P2), LineOf(GSA_3D)>>
  /\ IsGsa(trace[3])
  /\ ma.fix_type = Some(<<"3","D">>) /\ ma.last_update = Some(3)
  /\ ~IsNone(ma.pdop) /\ ~IsNone(ma.hdop) /\ ~IsNone(ma.vdop)
  /\ ma.status = VOID
  /\ Stored(ma) = Some(<<P2_LAT, P2_LON>>)
  /\ Previous(ma) = <<Some(P1_LAT), Some(P1_LON)>>

\* the five sentence types a parser is registered for
HandledTypes == {<<"R","M","C">>, <<"G","G","A">>, <<"G","S","A">>, <<"G","S","V">>, <<"G","L","L">>}
\* A received line that does not start with "$" once stripped
NotASentence(raw) == ~startswith(strip(raw), "$")
\* A received line that is a checksum-valid sentence of a type outside the five
Unsupported(raw) ==
  /\ startswith(strip(raw), "$")
  /\ Decoded[strip(raw)].ok
  /\ TypeOf(strip(raw)) \notin HandledTypes

\* C25: a received line that does not start with "$", and a checksum-valid
\* sentence of a type outside RMC/GGA/GSA/GSV/GLL, leave both readers' records
\* exactly as they were.
C25_Discarded ==
  [][(trace' # trace /\ (NotASentence(Fed) \/ Unsupported(Fed))) =>
       (ma' = ma /\ mb' = mb)]_vars

\* C25 witness: after an RMC was accepted, a checksum-valid VTG sentence and
\* an RMC behind a stray character were taken off the buffer, which keeps the
\* beginning of a further sentence; the record is the one the first RMC left.
C25_Witness ==
  /\ sentence_buffer = <<"$","G","P","G","G">>
  /\ trace = <<LineOf(RMC_ACTIVE_P1) \o <<"\r">>, LineOf(VTG) \o <<"\r">>,
               <<"x">> \o LineOf(RMC_ACTIVE_P2)>>
  /\ Unsupported(trace[2]) /\ NotASentence(trace[3])
  /\ ma.last_update = Some(1) /\ ma.last_rmc = Some(RMC_ACTIVE_P1)
  /\ Stored(ma) = Some(<<P1_LAT, P1_LON>>)

\* the value a direct call of the named helper returned
Returned(call) == ~IsNone(result) /\ Val(result).call = call
Value == Val(result).value
\* the position of the first "*" of a text that has one
Star(text) == CHOOSE i \in 1..Len(text) : text[i] = "*" /\ \A j \in 1..(i - 1) : text[j] # "*"

\* C26: for a payload that starts with "$" and holds no "*", the sentence
\* with_checksum returns is the payload, a "*" and the XOR of the payload's
\* characters after the "$" as two or more upper-case hex digits, and
\* _verify_checksum accepts that sentence.
C26_ChecksumRoundTrip ==
  (Returned("with_checksum") /\ startswith(Val(args), "$") /\ ~Contains(Val(args), "*")) =>
    /\ verify_checksum(Value)
    /\ UpTo(Value, Len(Val(args)) + 1) = Val(args) \o <<"*">>
    /\ PyIntHex(From(Value, Len(Val(args)) + 1)) = Some(XorAll(From(Val(args), 1)))

\* C26 witness: with_checksum was called on the Active RMC payload of the
\* display test and returned it with "*6B" appended.
C26_Witness ==
  /\ args = Some(RMC_ACTIVE_P1)
  /\ Returned("with_checksum")
  /\ Value = RMC_ACTIVE_P1 \o <<"*","6","B">>

\* what the claim lets pass: a "*", and after the first one a hex value equal
\* to the XOR of the characters between the leading "$" and that "*"
HexMatches(text) ==
  /\ Contains(text, "*")
  /\ PyIntHex(From(text, Star(text))) = Some(XorAll(SubSeq(text, 2, Star(text) - 1)))

\* C27: on a line that starts with "$", _verify_checksum returns True exactly
\* when the line holds a "*" and the text after the first "*" reads, as int(.,
\* 16) reads it, as the XOR of the characters between the "$" and that "*".
C27_VerifyIff ==
  (Returned("_verify_checksum") /\ startswith(Val(args), "$")) =>
    (Value <=> HexMatches(Val(args)))

\* C27 witness: _verify_checksum accepted "$J*4a", lower-case digits of the
\* XOR 0x4A of its one data character.
C27_Witness ==
  /\ args = Some(<<"$","J","*","4","a">>)
  /\ Returned("_verify_checksum")
  /\ Value = TRUE
  /\ XorAll(<<"J">>) = 74

\* An RMC followed by a GLL, one of them Active and the other Void
RmcThenOpposedGll(t) ==
  /\ Len(t) = 2 /\ IsRmc(t[1]) /\ IsGll(t[2])
  /\ {Field(t[1], 2), Field(t[2], 6)} = {<<"A">>, <<"V">>}

\* C28: after an RMC followed by a GLL of the opposite status (an Active RMC
\* with a position then a Void GLL, or a Void RMC without position then an
\* Active GLL), MA_GPSReader holds the GLL's status and GPSReader of MB_init
\* the RMC's: the two readers differ on the status.
C28_ReadersDiverge ==
  RmcThenOpposedGll(trace) =>
    /\ ma.status = Some(Field(trace[2], 6))
    /\ mb.status = Some(Field(trace[1], 2))
    /\ ma.status # mb.status

\* C28 witness: the Active RMC with a position and the Void GLL were applied;
\* MA_GPSReader is Void, GPSReader still Active, on the same position.
C28_Witness ==
  /\ trace = <<LineOf(RMC_ACTIVE_P1), LineOf(GLL_VOID_P1)>>
  /\ RmcThenOpposedGll(trace)
  /\ ma.status = VOID /\ mb.status = ACTIVE
  /\ Stored(ma) = Some(<<P1_LAT, P1_LON>>) /\ Stored(mb) = Stored(ma)

\* the text before the first "." of a coordinate field, and the text after it
Whole(coord) == Split(coord, ".")[1]
Fraction(coord) == IF Len(Split(coord, ".")) = 2 THEN Split(coord, ".")[2] ELSE <<>>
\* A coordinate field of digits with at most one ".", three or more digits
\* before it and a digit left for the minutes
PlainCoord(coord) ==
  /\ Len(Split(coord, ".")) <= 2
  /\ AllDigits(Whole(coord)) /\ Len(Whole(coord)) >= 3
  /\ AllDigits(Fraction(coord))
  /\ (Len(Whole(coord)) = 3 => Fraction(coord) # <<>>)
\* the number of degree digits the claim gives a field
DegreeDigits(coord) == IF Len(Whole(coord)) = 4 THEN 2 ELSE 3
\* degrees + minutes / 60, the minutes counted in units of their last
\* decimal
DegreesPlusMinutes(coord) ==
  FloatAdd(FloatOfInt(DigitsValue(UpTo(Whole(coord), DegreeDigits(coord)), 10, 0)),
           FloatDiv(Quotient(DigitsValue(From(Whole(coord), DegreeDigits(coord))
                                           \o Fraction(coord), 10, 0),
                             Pow10(Len(Fraction(coord)))),
                    FloatOfInt(60)))

\* C29: _parse_coordinate reads a field whose integer part has exactly four
\* digits with two degree digits and any other with three; the result is
\* degrees + minutes / 60, negated for S and W and positive for N and E.
C29_CoordinateForm ==
  (Returned("_parse_coordinate") /\ PlainCoord(Val(args).coord)) =>
    /\ Val(args).direction \in {<<"S">>, <<"W">>} =>
         Value = Some(FloatNeg(DegreesPlusMinutes(Val(args).coord)))
    /\ Val(args).direction \in {<<"N">>, <<"E">>} =>
         Value = Some(DegreesPlusMinutes(Val(args).coord))

\* C29 witness: "4909.038" with direction W was read in the latitude form,
\* 49 degrees and 9.038 minutes, and negated.
C29_Witness ==
  /\ args = Some([kind |-> "text", coord |-> <<"4","9","0","9",".","0","3","8">>, direction |-> <<"W">>])
  /\ Returned("_parse_coordinate")
  /\ DegreeDigits(Val(args).coord) = 2
  /\ Value = Some(FloatNeg(DegMin(49, 9038)))

\* the distance in degrees between a decoded coordinate r and a value v in
\* millionths of a degree
Distance(r, v) == FloatAbs(FloatSub(r, Quotient(v, 1000000)))
\* 1e-4 degree
Tolerance == Quotient(1, 10000)

\* C30: a latitude in [-90, 90] or a longitude in [-180, 180], written as
\* DDMM.MMMM or DDDMM.MMMM with its direction letter and read back by
\* _parse_coordinate, comes back within 1e-4 degree and on the same side of
\* zero.
C30_CoordinateRoundTrip ==
  Returned("decode") =>
    /\ ~IsNone(Value)
    /\ ~FloatLt(Tolerance, Distance(Val(Value), Val(args).value))
    /\ (FloatLt(Val(Value), Zero) => Val(args).value < 0)
    /\ (FloatLt(Zero, Val(Value)) => Val(args).value > 0)

\* C30 witness: the longitude -123.999999 was written as "12359.9999" W (its
\* 59.99994 minutes rounded to four decimals) and read back 0.00004 minute
\* away, on the west side.
C30_Witness ==
  /\ args = Some([kind |-> "degrees", axis |-> "longitude", value |-> -123999999])
  /\ Returned("decode")
  /\ Val(result).encoded = [coord |-> <<"1","2","3","5","9",".","9","9","9","9">>, direction |-> <<"W">>]
  /\ Value = Some(FloatNeg(FloatAdd(FloatOfInt(123), FloatDiv(Quotient(599999, 10000), FloatOfInt(60)))))
  /\ FloatLt(Quotient(6, 10000000), Distance(Val(Value), Val(args).value))
  /\ FloatLt(Distance(Val(Value), Val(args).value), Quotient(7, 10000000))

\* the number of line feeds in s
Newlines(s) == Cardinality({i \in 1..Len(s) : s[i] = "\n"})

\* C31: a call of read_and_parse returns, and not before its timeout has
\* elapsed; the line-splitting loop ends, each of its turns taking exactly one
\* line feed off the buffer
C31_Terminates ==
  /\ (rp.pc # "idle") ~> (rp.pc = "idle")
  /\ (rp.pc = "split") ~> (rp.pc = "while")
  /\ [](rp.pc = "return" => now - rp.start_time >= rp.timeout)
  /\ [][(rp.pc = "split" /\ sentence_buffer' # sentence_buffer)
          => Newlines(sentence_buffer') = Newlines(sentence_buffer) - 1]_vars
C31_Witness ==
  /\ rp.pc = "return"
  /\ rp.timeout = 1
  /\ now - rp.start_time = 1
  /\ uart.stream = StreamFix
  /\ Len(trace) = 2
  /\ sentence_buffer = <<"$","G","P","G","G">>

\* C32: once latitude and longitude are present in MA_GPSReader's GPSData no
\* sentence makes either of them absent, and a GLL changes the stored
\* position only in a reader that has never stored one.
C32_PresenceMonotone ==
  [][/\ (~IsNone(ma.latitude) /\ ~IsNone(ma.longitude))
          => (~IsNone(ma'.latitude) /\ ~IsNone(ma'.longitude))
     /\ (trace' # trace /\ IsGll(Fed) /\ Stored(ma') # Stored(ma))
          => (/\ IsNone(ma.latitude) /\ IsNone(ma.longitude)
              /\ IsNone(ma.last_position_change)
              /\ Previous(ma) = <<None, None>>)]_vars
\* C32 witness: a GLL brought the position to a reader that had none, and a
\* Void RMC without position fields came after it
C32_Witness ==
  /\ trace = <<LineOf(RMC_VOID_EMPTY), LineOf(GLL_ACTIVE_P4), LineOf(RMC_VOID_EMPTY)>>
  /\ Stored(ma) = Some(<<P4_LAT, P4_LON>>)
  /\ ma.status = VOID

\* a line of one of the three types, whatever its checksum and its length
OfType(line, types) == TypeOf(line) \in types
\* a position with a coordinate that is exactly zero
ZeroOnAnAxis(pos) == ~IsNone(pos) /\ (IsZero(Val(pos)[1]) \/ IsZero(Val(pos)[2]))

\* C33 as claimed: once is_valid() is true, no GGA, GSA or GSV sentence makes
\* it false, a GGA with the zero position included.
C33_AsClaimed ==
  [][(trace' # trace /\ OfType(Fed, {<<"G","G","A">>, <<"G","S","A">>, <<"G","S","V">>}) /\ MA_is_valid(ma))
       => MA_is_valid(ma')]_vars

\* C33: once is_valid() is true, a GSA or a GSV leaves it true, and a GGA
\* leaves it true exactly when it does not carry a position with a zero
\* coordinate, whatever fix quality it reports: a GGA with such a position
\* stores it like any other position, which makes is_valid() false.
C33_GgaKeepsValid ==
  [][(trace' # trace /\ OfType(Fed, {<<"G","G","A">>, <<"G","S","A">>, <<"G","S","V">>}) /\ MA_is_valid(ma))
       => (MA_is_valid(ma') <=> ~(IsGga(Fed) /\ ZeroOnAnAxis(GgaPosition(Fed))))]_vars
\* C33 witness: a GGA without a fix and without a position, and then a GGA
\* without a fix (quality 0) that carries another position, came after an
\* Active RMC, and is_valid() is true
C33_Witness ==
  /\ trace = <<LineOf(RMC_ACTIVE_P1), LineOf(GGA_NO_FIX), LineOf(GGA_NO_FIX_P3)>>
  /\ MA_is_valid(ma)
  /\ Stored(ma) = Some(<<P3_LAT, P3_LON>>)
  /\ ma.fix_quality = Some(0)

\* C34: whenever a previous position is present it differs from the current
\* position on an axis, and has_position_changed(0) is true.
C34_PreviousDiffers ==
  /\ (~IsNone(ma.previous_latitude) \/ ~IsNone(ma.previous_longitude))
       => (PyNe(ma.previous_latitude, ma.latitude)
             \/ PyNe(ma.previous_longitude, ma.longitude))
  /\ MA_has_position_changed(ma, Zero)

\* the accepted GSV messages handled so far
AcceptedGsv == {i \in 1..Len(trace) : WellFormedGsv(trace[i])}
\* the total-parts count a GSV line declares
TotalParts(line) == Val(PyInt(Field(line, 1)))

\* C35: after accepted GSV messages, also when messages with a part index
\* above 1 follow one another without a part 1 between them, there are at
\* most 4 satellite records for each part the latest message declares.
C35_GsvBounded ==
  AcceptedGsv # {} =>
    Len(ma.satellite_info) <= 4 * TotalParts(trace[Latest(AcceptedGsv)])

\* the text the reader has taken off the port so far, decoded
Taken == decode_ascii(UpTo(uart.stream, uart.taken))
\* the stripped lines of a text that a line feed ends, in order, and of these
\* the ones that start with "$"
CompleteLines(text) ==
  [i \in 1..(Len(Split(text, "\n")) - 1) |-> strip(Split(text, "\n")[i])]
SentenceLines(text) == SelectSeq(CompleteLines(text), LAMBDA line : startswith(line, "$"))
\* what follows the last line feed of a text
Unfinished(text) == Split(text, "\n")[Len(Split(text, "\n"))]
\* _parse_nmea_sentence on each of the lines in turn, starting from d
RECURSIVE ParseEach(_, _)
ParseEach(d, lines) ==
  IF lines = <<>> THEN d ELSE ParseEach(MA_parse_nmea_sentence(d, Head(lines), 0), Tail(lines))
\* a GPSData without the two fields that hold a reading of the clock
Unstamped(d) == [d EXCEPT !.last_update = None, !.last_position_change = None]

\* C36: however the stream is cut into reads and calls, the lines handed to
\* _parse_nmea_sentence are the "$" lines of the text taken so far, each once
\* and in order (those still in the buffer included), the buffer ends with the
\* unfinished line, holds no line feed once the line loop is left, and the
\* GPSData is the one these lines give when parsed in turn.
C36_ChunkIndependent ==
  /\ trace \o SentenceLines(sentence_buffer) = SentenceLines(Taken)
  /\ Unfinished(sentence_buffer) = Unfinished(Taken)
  /\ rp.pc # "split" => (trace = SentenceLines(Taken) /\ sentence_buffer = Unfinished(Taken))
  /\ Unstamped(ma) = Unstamped(ParseEach(MA_GPSData(0), trace))
\* C36 witness: the first call returned with half a sentence in the buffer, the
\* second call completed it, and at the end of the stream both sentences were
\* parsed and the unfinished one is in the buffer
C36_Witness ==
  /\ uart.stream = StreamFix
  /\ uart.taken = Len(StreamFix)
  /\ rp.pc = "idle"
  /\ rp.calls = 2
  /\ startswith(rp.carried, "$")
  /\ trace = <<LineOf(RMC_ACTIVE_P1), LineOf(GLL_VOID_P1)>>
  /\ sentence_buffer = <<"$","G","P","G","G">>
  /\ ma.status = VOID

\* the sentences of a text that _process_nmea_data would hand to a parser
Handable(lines) ==
  SelectSeq(lines, LAMBDA line : GP_msg(line) \in {<<"R","M","C">>, <<"G","G","A">>, <<"G","S","A">>})

\* C37: whatever the cuts between reads and the time between them, the
\* sentences GPSReader.update has handed to _parse_rmc, _parse_gga or
\* _parse_gsa are the complete RMC, GGA and GSA lines of the text taken off the
\* port so far, each whole, once and in order.
C37_WholeOnce == gps.parsed = Handable(SentenceLines(Taken))

\* an RMC sentence whose status field is not "A"
NotActiveRmc(sentence) ==
  /\ GP_msg(sentence) = <<"R","M","C">>
  /\ Len(Split(sentence, ",")) < 3 \/ P(Split(sentence, ","), 2) # <<"A">>
\* a GPSData with a fix and both coordinates set
GP_Fixed(d) == d.has_fix /\ ~IsZero(d.latitude) /\ ~IsZero(d.longitude)
\* the sentences handed to a parser in this step
NewlyParsed == SubSeq(gps'.parsed, Len(gps.parsed) + 1, Len(gps'.parsed))

\* C38: once current_data has a fix and a position, it keeps them over every
\* step in which no RMC with a status other than "A" is processed.
C38_FixAccumulates ==
  [][(GP_Fixed(gps.current_data)
      /\ \A i \in 1..Len(NewlyParsed) : ~NotActiveRmc(NewlyParsed[i]))
     => GP_Fixed(gps'.current_data)]_vars

\* the step of the UI loop in which publish.single sends the message
PublishStep == ui.pc = "publish" /\ ui'.pc = "draw"
\* fix_latched never returns to false and becomes true only when the loop has
\* read has_fix = True; a message is published only by a publish step, which
\* happens with fix_latched true
PublishAfterLatch ==
  /\ [][ui.fix_latched => ui'.fix_latched]_vars
  /\ [][(~ui.fix_latched /\ ui'.fix_latched) => ui.has_fix = Some(TRUE)]_vars
  /\ [][ui'.published # ui.published => PublishStep]_vars
  /\ [][PublishStep => ui.fix_latched /\ ui'.fix_latched]_vars
\* the message of lat = 0.0 and lon = 0.0
ZERO_MESSAGE == <<"0",".","0","0","0","0","0","0",",","0",".","0","0","0","0","0","0">>

\* C39 as claimed: every publish happens with fix_latched true, fix_latched
\* never returns to false, and no published message carries a latitude 0
\* together with a longitude 0.
C39_AsClaimed ==
  /\ PublishAfterLatch
  /\ [](~IsNone(ui.published) => Val(ui.published) # ZERO_MESSAGE)

\* C39: every publish happens with fix_latched true, fix_latched never returns
\* to false, and no message is published from a lat and a lon that are both 0;
\* the message is the two values with six decimals (so that of a lat or lon
\* that is not 0 but smaller than 0.0000005 reads 0.000000).
C39_PublishLatched ==
  /\ PublishAfterLatch
  /\ [][PublishStep =>
          /\ ~(IsZero(Val(ui.lat)) /\ IsZero(Val(ui.lon)))
          /\ ui'.published = Some(format(Val(ui.lat), 6) \o <<",">> \o format(Val(ui.lon), 6))]_vars
\* C39 witness: the loop latched the fix on the zero position, which it did
\* not publish, and has now published the position a hundred-thousandth of a
\* minute north of it, whose message reads 0.000000,0.000000.
C39_Witness ==
  /\ ui.pc = "draw"
  /\ ui.fix_latched
  /\ ~IsZero(Val(ui.lat)) /\ IsZero(Val(ui.lon))
  /\ ui.published = Some(ZERO_MESSAGE)
  /\ IsNone(ui.displayed)
====
